---- MODULE Spec2Model ----
(***************************************************************************)
(* A model of the v2 pipeline of lexsy-backend: placeholder detection,     *)
(* marker templating, the conversational slot-filling service and the      *)
(* document generator.                                                     *)
(*                                                                         *)
(* Text is a sequence of atoms.  An atom is a bracket character, a         *)
(* placeholder body (an unbroken run of letters or underscores that the    *)
(* detector's character classes accept or reject as a whole), a word of    *)
(* prose, a paragraph separator, or a marker ({{PLACEHOLDER_XXXXXXXX}},     *)
(* written "M1", "M2", ...).  A paragraph is a sequence of runs, a run is   *)
(* a text.  Optional values (Python's None) are sequences of length 0 or   *)
(* 1.  Confidences are in thousandths.                                     *)
(***************************************************************************)
EXTENDS Integers, Sequences, FiniteSets, TLC

VARIABLES
    fs,               \* the upload directory tree: path -> document content
    docs,             \* the "documents" collection; a record's id is its index
    active_sessions,  \* PlaceholderService.active_sessions: session id -> document id
    ret,              \* what the last call returned (or the error it raised)
    parseLog,         \* per document: the source content of its upload, the detections,
                      \* and what the detector's scoring calls gave
    inflight,         \* process_message calls that have read their document and not yet saved it
    assistant_run     \* the v1 filler: the remote assistant run and the call waiting for it

vars == <<fs, docs, active_sessions, ret, parseLog, inflight, assistant_run>>

----------------------------------------------------------------------------
(* Bounds of the model *)

MaxDocs == 1          \* uploads explored
MaxSessions == 2      \* start_session calls explored
MaxHistory == 5       \* conversation_history entries explored per document

----------------------------------------------------------------------------
(* Optional values *)

None == <<>>
Some(v) == <<v>>
IsNone(o) == o = <<>>
Get(o) == o[1]

----------------------------------------------------------------------------
(* Text *)

RECURSIVE Concat(_)
Concat(seqs) ==
    IF seqs = <<>> THEN <<>> ELSE Head(seqs) \o Concat(Tail(seqs))

\* str.join(sep, parts)
RECURSIVE Join(_, _)
Join(sep, parts) ==
    IF parts = <<>> THEN <<>>
    ELSE IF Len(parts) = 1 THEN parts[1]
    ELSE parts[1] \o sep \o Join(sep, Tail(parts))

\* whether pat occurs in text at the 1-based index i
OccursAt(pat, text, i) ==
    /\ i >= 1
    /\ i + Len(pat) - 1 <= Len(text)
    /\ SubSeq(text, i, i + Len(pat) - 1) = pat

\* the 1-based index of the first occurrence of pat in text, 0 if there is none
IndexOf(pat, text) ==
    IF \E i \in 1..Len(text) : OccursAt(pat, text, i)
    THEN CHOOSE i \in 1..Len(text) :
            /\ OccursAt(pat, text, i)
            /\ \A j \in 1..(i - 1) : ~OccursAt(pat, text, j)
    ELSE 0

\* `pat in text` / pattern.search(text) for an escaped literal pattern
Contains(pat, text) == IndexOf(pat, text) # 0

\* pattern.sub(repl, text, count=1): the first occurrence replaced
SubOnce(pat, repl, text) ==
    LET i == IndexOf(pat, text) IN
    IF i = 0 THEN text
    ELSE SubSeq(text, 1, i - 1) \o repl \o SubSeq(text, i + Len(pat), Len(text))

\* str.replace(pat, repl): every non-overlapping occurrence, left to right
RECURSIVE ReplaceAll(_, _, _)
ReplaceAll(pat, repl, text) ==
    LET i == IndexOf(pat, text) IN
    IF i = 0 \/ pat = <<>> THEN text
    ELSE SubSeq(text, 1, i - 1) \o repl
            \o ReplaceAll(pat, repl, SubSeq(text, i + Len(pat), Len(text)))

\* the number of occurrences of the atom a in text
RECURSIVE CountAtom(_, _)
CountAtom(a, text) ==
    IF text = <<>> THEN 0
    ELSE (IF Head(text) = a THEN 1 ELSE 0) + CountAtom(a, Tail(text))

\* the number of (possibly overlapping) occurrences of pat in text
CountOcc(pat, text) == Cardinality({i \in 1..Len(text) : OccursAt(pat, text, i)})

----------------------------------------------------------------------------
(* Document text model (python-docx): paragraphs of runs, table cells *)

\* Paragraph.text
ParaText(para) == Concat(para)

\* every paragraph of the content, body first and then the table cells
AllParas(content) == content.paragraphs \o content.tables

\* the whole text of a content, paragraph by paragraph
FlatText(content) ==
    Join(<<"\n">>, [i \in 1..Len(AllParas(content)) |-> ParaText(AllParas(content)[i])])

----------------------------------------------------------------------------
(* Placeholder detector (tools/detector_tool.py) *)

\* bodies accepted by [A-Z][A-Za-z\s]{2,50}
CapBodies == {"Name", "Amount", "Insert"}
\* bodies accepted by [A-Za-z_\s]{3,50}
GenBodies == {"Name", "Amount", "Insert", "date", "___"}
\* bodies accepted by _{2,10}
UnderscoreBodies == {"__", "___"}
BracketAtoms == {"[", "]", "{", "}", "(", ")", "<", ">"}

\* the number of characters an atom stands for
AtomLen(a) ==
    CASE a = "Name" -> 4
      [] a = "Amount" -> 6
      [] a = "Insert" -> 6
      [] a = "date" -> 4
      [] a = "___" -> 3
      [] a = "__" -> 2
      [] OTHER -> 1

\* PLACEHOLDER_PATTERNS, in list order; "CAP", "GEN" and "UND" stand for the
\* three character classes, every other element for itself
PLACEHOLDER_PATTERNS ==
    << <<"[", "CAP", "]">>,
       <<"[", "GEN", "]">>,
       <<"{", "GEN", "}">>,
       <<"<", "GEN", ">">>,
       <<"{", "{", "GEN", "}", "}">>,
       <<"[", "[", "GEN", "]", "]">>,
       <<"[", "UND", "]">> >>

AtomMatches(cls, a) ==
    CASE cls = "CAP" -> a \in CapBodies
      [] cls = "GEN" -> a \in GenBodies
      [] cls = "UND" -> a \in UnderscoreBodies
      [] OTHER -> a = cls

\* whether the pattern matches the text at the 1-based index i
MatchAt(pat, text, i) ==
    /\ i + Len(pat) - 1 <= Len(text)
    /\ \A k \in 1..Len(pat) : AtomMatches(pat[k], text[i + k - 1])

\* re.finditer(pattern, text): the 1-based starts of the non-overlapping
\* matches, scanning left to right from index i
RECURSIVE Finditer(_, _, _)
Finditer(pat, text, i) ==
    IF i > Len(text) THEN <<>>
    ELSE IF MatchAt(pat, text, i)
         THEN <<i>> \o Finditer(pat, text, i + Len(pat))
         ELSE Finditer(pat, text, i + 1)

\* re.sub(r"[\[\]{}()<>]", "", text).strip()
StripBrackets(text) == SelectSeq(text, LAMBDA a : a \notin BracketAtoms)

RECURSIVE TextLen(_)
TextLen(text) == IF text = <<>> THEN 0 ELSE AtomLen(Head(text)) + TextLen(Tail(text))

\* _is_valid_placeholder_structure: a body holds no period, URL or quote, so
\* only the length test can reject
IsValidPlaceholderStructure(text) == ~(TextLen(StripBrackets(text)) > 60)

\* _heuristic_confidence
HeuristicConfidence(text) ==
    IF \E k \in 1..Len(text) : text[k] \in {"Name", "date"} THEN 900
    ELSE IF \E k \in 1..Len(text) : text[k] \in {"Insert"} THEN 700
    ELSE IF \A k \in 1..Len(text) :
                text[k] \in {"[", "]", "{", "}", "<", ">"} \cup UnderscoreBodies THEN 900
    ELSE 600

\* _validate_placeholder: the LLM's score clamped to [0,1], or the heuristic
\* when the call fails or its answer is no number (outcome -1)
ValidatePlaceholder(text, outcome) ==
    IF outcome = -1 THEN HeuristicConfidence(text)
    ELSE IF outcome < 0 THEN 0 ELSE IF outcome > 1000 THEN 1000 ELSE outcome

\* the matches of pattern p, as detections, that pass the filter and the score
PatternDetections(p, text, oracle) ==
    LET starts == Finditer(PLACEHOLDER_PATTERNS[p], text, 1)
        n == Len(PLACEHOLDER_PATTERNS[p])
        det(s) == [text |-> SubSeq(text, s, s + n - 1),
                   start_pos |-> s - 1,
                   end_pos |-> s - 1 + n,
                   confidence |-> ValidatePlaceholder(SubSeq(text, s, s + n - 1),
                                                      oracle[<<p, s - 1>>])]
        all == [k \in 1..Len(starts) |-> det(starts[k])]
    IN  SelectSeq(all, LAMBDA d : IsValidPlaceholderStructure(d.text) /\ d.confidence > 500)

\* a variant of the duplicate removal that keeps every detection
KeepAllDetections(detections, seen_positions) == detections

\* "Remove duplicates (same position)": the first detection of each start_pos
RECURSIVE UniqueDetections(_, _)
UniqueDetections(detections, seen_positions) ==
    IF detections = <<>> THEN <<>>
    ELSE IF Head(detections).start_pos \notin seen_positions
         THEN <<Head(detections)>>
                \o UniqueDetections(Tail(detections),
                                    seen_positions \cup {Head(detections).start_pos})
         ELSE UniqueDetections(Tail(detections), seen_positions)

\* PlaceholderDetectorTool._run
DetectorRun(document_text, oracle) ==
    UniqueDetections(
        Concat([p \in 1..Len(PLACEHOLDER_PATTERNS) |->
                    PatternDetections(p, document_text, oracle)]),
        {})

\* the scoring calls _run makes on a text: <<pattern index, start_pos>>
ScoreCalls(document_text) ==
    {<<p, s - 1>> : p \in 1..Len(PLACEHOLDER_PATTERNS), s \in 1..Len(document_text)}
        \cap {c \in (1..Len(PLACEHOLDER_PATTERNS)) \X (0..Len(document_text)) :
                MatchAt(PLACEHOLDER_PATTERNS[c[1]], document_text, c[2] + 1)}

----------------------------------------------------------------------------
(* Parser and templater (app/langchain/parser.py) *)

\* the markers uuid4().hex[:8] can produce, as far as the model draws them
MarkerAtoms == {"M1", "M2", "M3"}
Marker(a) == <<a>>

\* detection.text.strip("[]{}()<>_")
CleanedLabel(text) ==
    LET kept == SelectSeq(text, LAMBDA a : a \notin BracketAtoms \cup UnderscoreBodies)
    IN  IF kept = <<>> THEN "" ELSE kept[1]

\* one PlaceHolder of parse_document: analysis is None when the analysis of
\* the detection raised, else it carries the classifier's type; a blank label
\* is named by _extract_name_from_context (its fallback name)
MakePlaceholder(detection, marker, analysis) ==
    [name |-> IF CleanedLabel(detection.text) = "" /\ ~IsNone(analysis)
              THEN "Required Information"
              ELSE CleanedLabel(detection.text),
     placeholder |-> detection.text,
     unique_marker |-> marker,
     regex |-> detection.text,
     value |-> None,
     analysis |-> analysis]

\* "for run in para.runs: run.text = ''; para.runs[0].text = new_text"
CollapseRuns(para, new_text) ==
    IF para # <<>>
    THEN [k \in 1..Len(para) |-> IF k = 1 THEN new_text ELSE <<>>]
    ELSE <<new_text>>

\* the loop over paragraphs of _create_temp_document from paragraph i on:
\* <<paragraphs, replaced>>
RECURSIVE ReplaceInParas(_, _, _, _)
ReplaceInParas(paras, pat, marker, i) ==
    IF i > Len(paras) THEN <<paras, FALSE>>
    ELSE IF Contains(pat, ParaText(paras[i]))
            /\ SubOnce(pat, marker, Concat(paras[i])) # Concat(paras[i])
         THEN <<[paras EXCEPT ![i] =
                    CollapseRuns(paras[i], SubOnce(pat, marker, Concat(paras[i])))],
                TRUE>>
         ELSE ReplaceInParas(paras, pat, marker, i + 1)

\* a variant of the iteration that goes on to the table cells after a body
\* paragraph was changed
TemplateStepEverywhere(content, placeholder) ==
    LET body == ReplaceInParas(content.paragraphs, placeholder.placeholder,
                               placeholder.unique_marker, 1)
        cells == ReplaceInParas(content.tables, placeholder.placeholder,
                                placeholder.unique_marker, 1)
    IN  [content EXCEPT !.paragraphs = body[1], !.tables = cells[1]]

\* one iteration of the loop over placeholders: body paragraphs first, table
\* cells only when no body paragraph was changed
TemplateStep(content, placeholder) ==
    LET body == ReplaceInParas(content.paragraphs, placeholder.placeholder,
                               placeholder.unique_marker, 1)
        cells == ReplaceInParas(content.tables, placeholder.placeholder,
                                placeholder.unique_marker, 1)
    IN  IF body[2] THEN [content EXCEPT !.paragraphs = body[1]]
        ELSE IF cells[2] THEN [content EXCEPT !.tables = cells[1]]
        ELSE content

\* _create_temp_document: the working copy after the placeholders i.. are done
RECURSIVE CreateTempDocument(_, _, _)
CreateTempDocument(content, placeholders, i) ==
    IF i > Len(placeholders) THEN content
    ELSE CreateTempDocument(TemplateStep(content, placeholders[i]), placeholders, i + 1)

\* full_text of parse_document: the body paragraphs only
FullText(content) ==
    Join(<<"\n">>, [i \in 1..Len(content.paragraphs) |-> ParaText(content.paragraphs[i])])

\* parse_document: (placeholders, working copy)
ParseDocument(content, oracle, markers, analyses) ==
    LET detections == DetectorRun(FullText(content), oracle)
        placeholders == [i \in 1..Len(detections) |->
                            MakePlaceholder(detections[i], Marker(markers[i]), analyses[i])]
    IN  [placeholders |-> placeholders,
         temp |-> CreateTempDocument(content, placeholders, 1),
         detections |-> detections]

----------------------------------------------------------------------------
(* Values and messages of the conversation: the strings the model draws,   *)
(* each one atom, with the features the validators and the fallback        *)
(* extractor compute on them                                               *)

\* "{{PLACEHOLDER_XXXXXXXX}}" typed by the user is the marker atom itself
ValueAtoms == {"Lexsy", "yes", "12/25/2024", "13/45/2024", " "} \cup MarkerAtoms

\* len(value.strip())
StripLen(v) ==
    IF v = <<>> \/ v = <<" ">> THEN 0
    ELSE IF v \in {<<"x">>} THEN 1
    ELSE IF v \in {<<"AZ">>} THEN 2
    ELSE IF v \in {<<"yes">>} THEN 3
    ELSE IF v \in {<<"Lexsy">>, <<"12345">>} THEN 5
    ELSE IF v \in {<<"12/25/2024">>, <<"13/45/2024">>, <<"01/01/1800">>,
                   <<"5551234567">>} THEN 10
    ELSE IF v \in {<<"john@company.com">>} THEN 16
    ELSE 24

\* re.match(email_pattern, value)
MatchesEmail(v) == v \in {<<"john@company.com">>}

\* len(digits_only) when digits_only.isdigit(), else -1
PhoneDigits(v) ==
    IF v \in {<<"5551234567">>} THEN 10 ELSE IF v \in {<<"12345">>} THEN 5 ELSE -1

\* the year date_parser.parse(value, fuzzy=False) yields, -1 when it raises
DateYear(v) ==
    IF v = <<"12/25/2024">> THEN 2024 ELSE IF v = <<"01/01/1800">> THEN 1800 ELSE -1

\* float(cleaned) does not raise
IsFloat(v) == v \in {<<"5551234567">>, <<"12345">>}

\* re.search(r"[a-zA-Z]", value)
HasLetters(v) ==
    v \in {<<"Lexsy">>, <<"yes">>, <<"john@company.com">>, <<"x">>, <<"AZ">>}
         \cup {<<m>> : m \in MarkerAtoms}

\* value_stripped.isalpha()
IsAlpha(v) == v \in {<<"Lexsy">>, <<"yes">>, <<"x">>, <<"AZ">>}

\* datetime.now().year
CurrentYear == 2026

----------------------------------------------------------------------------
(* Hybrid validator (validators/hybrid_validator.py) *)

PlaceholderType ==
    {"text", "date", "number", "email", "phone", "address", "boolean", "unknown"}

Passed(confidence, message) ==
    [confidence |-> confidence, message |-> message, passed |-> TRUE, suggestion |-> None]
Failed(message, suggestion) ==
    [confidence |-> 0, message |-> message, passed |-> FALSE, suggestion |-> suggestion]

ValidateEmail(v) ==
    IF ~MatchesEmail(v)
    THEN Failed("Invalid email format. Please use format like: user@example.com",
                Some("e.g., john@company.com"))
    ELSE Passed(950, "Valid email format")

ValidatePhone(v) ==
    IF PhoneDigits(v) = -1
    THEN Failed("Phone number should contain only digits and separators",
                Some("e.g., +1-555-123-4567 or 5551234567"))
    ELSE IF PhoneDigits(v) < 10 \/ PhoneDigits(v) > 15
    THEN Failed("Phone number should be 10-15 digits", Some("Include country code if international"))
    ELSE Passed(900, "Valid phone format")

ValidateDate(v) ==
    IF DateYear(v) = -1
    THEN Failed("Could not parse date. Please use format like: MM/DD/YYYY or YYYY-MM-DD",
                Some("e.g., 12/25/2024 or 2024-12-25"))
    ELSE IF DateYear(v) < 1900 \/ DateYear(v) > CurrentYear + 50
    THEN Failed("Date year seems unusual", Some("Please double-check the year"))
    ELSE Passed(900, "Valid date format")

ValidateNumber(v) ==
    IF IsFloat(v) THEN Passed(950, "Valid number")
    ELSE Failed("Not a valid number", Some("e.g., 1234.56 or $1,234.56"))

ValidateAddress(v) ==
    IF StripLen(v) = 2 /\ IsAlpha(v) THEN Passed(850, "Valid (state code)")
    ELSE IF StripLen(v) < 3 THEN Failed("Too short", Some("AZ or 123 Main St, City, State"))
    ELSE IF ~HasLetters(v) THEN Failed("Invalid format", Some("AZ or 123 Main St, City, State"))
    ELSE Passed(850, "Valid")

ValidateText(v) ==
    IF StripLen(v) = 0 THEN Failed("Value cannot be empty", None)
    ELSE IF StripLen(v) = 1 THEN Passed(750, "Valid (short input)")
    ELSE Passed(900, "Valid")

\* _rule_based_validation
RuleBasedValidation(v, placeholder_type) ==
    CASE placeholder_type = "email" -> ValidateEmail(v)
      [] placeholder_type = "phone" -> ValidatePhone(v)
      [] placeholder_type = "date" -> ValidateDate(v)
      [] placeholder_type = "number" -> ValidateNumber(v)
      [] placeholder_type = "address" -> ValidateAddress(v)
      [] OTHER -> ValidateText(v)

\* a variant of the confidence stage that counts a failed call as 0
LlmConfidenceFailClosed(outcome) ==
    IF outcome < 0 THEN 0 ELSE IF outcome > 1000 THEN 1000 ELSE outcome

\* _llm_confidence_check: the LLM's number clamped to [0,1], in thousandths,
\* or 0.7 when the call fails or its answer is no number (outcome -1)
LlmConfidenceCheck(outcome) ==
    IF outcome = -1 THEN 700
    ELSE IF outcome < 0 THEN 0 ELSE IF outcome > 1000 THEN 1000 ELSE outcome

\* a variant of the blend that always weights the rule stage 0.4
FinalConfidenceLowWeights(rule_confidence, llm_confidence) ==
    rule_confidence * 4 + llm_confidence * 6

\* the blend of validate, in ten-thousandths
FinalConfidence(rule_confidence, llm_confidence) ==
    IF rule_confidence >= 750
    THEN rule_confidence * 5 + llm_confidence * 5
    ELSE rule_confidence * 4 + llm_confidence * 6

\* _generate_message
GenerateMessage(final_confidence, placeholder_type) ==
    IF final_confidence >= 6000 THEN "Accepted" ELSE "Invalid " \o placeholder_type

\* validate after the rule stage; llm_called and llm_failed record whether
\* the LLM stage ran and whether it fell back on its default
ValidateAfterRules(rule_result, final, placeholder_type, llm_failed) ==
    IF ~rule_result.passed
    THEN [is_valid |-> FALSE, confidence |-> 0,
          validation_message |-> rule_result.message,
          suggested_correction |-> rule_result.suggestion,
          llm_called |-> FALSE, llm_failed |-> FALSE]
    ELSE [is_valid |-> final > 5000, confidence |-> final,
          validation_message |-> GenerateMessage(final, placeholder_type),
          suggested_correction |-> None,
          llm_called |-> TRUE, llm_failed |-> llm_failed]

ValidateWith(rule_result, placeholder_type, llm_outcome) ==
    ValidateAfterRules(rule_result,
                       FinalConfidence(rule_result.confidence,
                                       LlmConfidenceCheck(llm_outcome)),
                       placeholder_type, llm_outcome = -1)

\* HybridValidator.validate
Validate(v, placeholder_type, llm_outcome) ==
    ValidateWith(RuleBasedValidation(v, placeholder_type), placeholder_type, llm_outcome)

----------------------------------------------------------------------------
(* Value extractor (agents/value_extractor.py) *)

Messages == {"yes", "What format?"}

\* a message as the model reads it: its words, message.strip() split at
\* its single spaces
WordsOf(message) ==
    CASE message = "yes" -> <<"yes">>
      [] message = "What format?" -> <<"What", "format?">>
      [] OTHER -> <<"My", "company", "name", "is", "Lexsy">>

\* a word of 200 letters that holds none of the words the fallback looks for
LongWord == "Lorem200"

\* len(word)
MessageWordLen(w) ==
    CASE w \in {"5"} -> 1
      [] w \in {"it", "is", "My"} -> 2
      [] w \in {"and", "its", "yes"} -> 3
      [] w \in {"What", "name"} -> 4
      [] w \in {"Lexsy"} -> 5
      [] w \in {"called"} -> 6
      [] w \in {"company", "format?"} -> 7
      [] OTHER -> 200

\* len(text) of words joined by single spaces
RECURSIVE WordsLen(_)
WordsLen(words) ==
    IF words = <<>> THEN 0
    ELSE IF Len(words) = 1 THEN MessageWordLen(words[1])
    ELSE MessageWordLen(words[1]) + 1 + WordsLen(Tail(words))

\* the words that hold one of question_words, lower-cased
QuestionAtoms == {"What", "format?"}

\* any(word in message.lower() for word in question_words)
IsQuestionWords(words) == \E i \in 1..Len(words) : words[i] \in QuestionAtoms
IsQuestion(message) == IsQuestionWords(WordsOf(message))

\* len(message.strip())
MessageLen(message) == WordsLen(WordsOf(message))

\* the group of r"(?:k1|k2|...)\s+(.+)$", stripped: what follows the leftmost
\* keyword that has a word after it; None when the pattern does not match
CaptureAfter(keywords, words) ==
    IF \E i \in 1..(Len(words) - 1) : words[i] \in keywords
    THEN LET i == CHOOSE i \in 1..(Len(words) - 1) :
                    /\ words[i] \in keywords
                    /\ \A j \in 1..(i - 1) : words[j] \notin keywords
         IN  Some(SubSeq(words, i + 1, Len(words)))
    ELSE None

\* the group of r"^(.+?)\s+(?:is|was|are).*": what precedes the leftmost
\* later word that begins with is, was or are
CaptureBefore(starters, words) ==
    IF \E i \in 2..Len(words) : words[i] \in starters
    THEN LET i == CHOOSE i \in 2..Len(words) :
                    /\ words[i] \in starters
                    /\ \A j \in 2..(i - 1) : words[j] \notin starters
         IN  Some(SubSeq(words, 1, i - 1))
    ELSE None

\* the four patterns of _fallback_extraction, in order, on the model's words
PatternCapture(p, words) ==
    CASE p = 1 -> CaptureAfter({"is", "are", "was", "were"}, words)
      [] p = 2 -> CaptureAfter({"it's", "its"}, words)
      [] p = 3 -> CaptureAfter({"called", "named"}, words)
      [] OTHER -> CaptureBefore({"is", "was", "are"}, words)
NumPatterns == 4

\* re.sub(r"\s+and\s+it.*$", "", extracted): the text cut at the leftmost
\* " and it"
StripAndIt(extracted) ==
    IF \E j \in 2..(Len(extracted) - 1) :
            extracted[j] = "and" /\ extracted[j + 1] \in {"it", "its", "it's"}
    THEN LET j == CHOOSE j \in 2..(Len(extracted) - 1) :
                    /\ extracted[j] = "and" /\ extracted[j + 1] \in {"it", "its", "it's"}
                    /\ \A k \in 2..(j - 1) :
                            ~(extracted[k] = "and"
                                /\ extracted[k + 1] \in {"it", "its", "it's"})
         IN  SubSeq(extracted, 1, j - 1)
    ELSE extracted

\* whether pattern p matches and its group, cut, is longer than one character
Yields(p, words) ==
    /\ ~IsNone(PatternCapture(p, words))
    /\ WordsLen(StripAndIt(Get(PatternCapture(p, words)))) > 1

\* the loop over patterns: the value of the first pattern that yields one
PatternExtractWords(words) ==
    IF \E p \in 1..NumPatterns : Yields(p, words)
    THEN LET p == CHOOSE p \in 1..NumPatterns :
                    Yields(p, words) /\ \A q \in 1..(p - 1) : ~Yields(q, words)
         IN  Some(StripAndIt(Get(PatternCapture(p, words))))
    ELSE None
PatternExtract(message) == PatternExtractWords(WordsOf(message))

NeedsClarification(reasoning) ==
    [extracted_value |-> None, confidence |-> 0, needs_clarification |-> TRUE,
     reasoning |-> reasoning]

\* _fallback_extraction on the words of the stripped message
FallbackOnWords(words) ==
    IF IsQuestionWords(words) THEN NeedsClarification("Message appears to be a question")
    ELSE IF WordsLen(words) < 2 THEN NeedsClarification("Message too short")
    ELSE IF ~IsNone(PatternExtractWords(words))
    THEN [extracted_value |-> PatternExtractWords(words), confidence |-> 750,
          needs_clarification |-> FALSE, reasoning |-> "Extracted using pattern matching"]
    ELSE IF WordsLen(words) < 200
    THEN [extracted_value |-> Some(words), confidence |-> 600,
          needs_clarification |-> FALSE, reasoning |-> "Direct input without pattern"]
    ELSE NeedsClarification("Message too complex")

\* _fallback_extraction
FallbackExtraction(message) == FallbackOnWords(WordsOf(message))

\* ValueExtractor.extract: the ExtractionResult the LLM's JSON gives, or the
\* fallback when the call or the parse raised
ExtractOnWords(words, llm) ==
    IF llm.failed THEN FallbackOnWords(words)
    ELSE [extracted_value |-> llm.extracted_value, confidence |-> llm.confidence,
          needs_clarification |-> llm.needs_clarification, reasoning |-> "llm"]
Extract(message, llm) == ExtractOnWords(WordsOf(message), llm)

----------------------------------------------------------------------------
(* Response generator (agents/response_generator.py) *)

\* generate_initial_question: the parse-time hint, or the name-based default
InitialQuestion(placeholder) ==
    IF ~IsNone(placeholder.analysis) THEN <<"hint:", placeholder.name>>
    ELSE IF placeholder.name # "" THEN <<"What is the", placeholder.name>>
    ELSE <<"Could you please provide the required information?">>

\* _generate_clarification_request
ClarificationRequest(placeholder) ==
    [kind |-> "clarification", question |-> InitialQuestion(placeholder)]

\* a variant of _generate_invalid_response that leaves the example out
InvalidResponseWithoutExample(placeholder, validation_result) ==
    [kind |-> "invalid",
     message |-> validation_result.validation_message,
     example |-> None,
     name |-> placeholder.name]

\* _generate_invalid_response
InvalidResponse(placeholder, validation_result) ==
    [kind |-> "invalid",
     message |-> validation_result.validation_message,
     example |-> validation_result.suggested_correction,
     name |-> placeholder.name]

\* _generate_accepted_response with a next placeholder
AcceptedResponse(next_placeholder, accepted_value, progress) ==
    [kind |-> "accepted", value |-> accepted_value,
     question |-> InitialQuestion(next_placeholder),
     filled |-> progress.filled, total |-> progress.total]

\* _generate_completion_message
CompletionMessage(progress) == [kind |-> "completion", total |-> progress.total]

----------------------------------------------------------------------------
(* Filler pipeline (app/langchain/filler.py) *)

TypeOf(placeholder) ==
    IF IsNone(placeholder.analysis) THEN "text" ELSE Get(placeholder.analysis).inferred_type

\* a variant of the filler's test that looks at the value alone
ExtractionWithoutValue(extraction_result) ==
    IsNone(extraction_result.extracted_value)

\* a variant of the test that looks at the value alone
ExtractionUnusableWhenNull(extraction_result) ==
    IsNone(extraction_result.extracted_value)

\* "extraction_result.extracted_value is None or
\*  extraction_result.needs_clarification"
ExtractionUnusable(extraction_result) ==
    IsNone(extraction_result.extracted_value) \/ extraction_result.needs_clarification

\* the filler after validate has returned: the INVALID return, or the
\* accepted one; confidences in 1e-7
AfterValidation(placeholder, extraction_result, validation_result) ==
    IF ~validation_result.is_valid
    THEN [response |-> InvalidResponse(placeholder, validation_result),
          extracted_value |-> extraction_result.extracted_value,
          validation_result |-> Some(validation_result),
          value_accepted |-> FALSE, needs_clarification |-> FALSE,
          confidence |-> validation_result.confidence * 1000,
          extraction |-> Some(extraction_result),
          validation |-> Some(validation_result), validator_called |-> TRUE]
    ELSE [response |-> [kind |-> "validated",
                        message |-> validation_result.validation_message],
          extracted_value |-> extraction_result.extracted_value,
          validation_result |-> Some(validation_result),
          value_accepted |-> TRUE, needs_clarification |-> FALSE,
          confidence |-> extraction_result.confidence * validation_result.confidence,
          extraction |-> Some(extraction_result),
          validation |-> Some(validation_result), validator_called |-> TRUE]

\* the filler after extract has returned: the NEEDS_CLARIFICATION return, or
\* the call of validate
AfterExtraction(placeholder, extraction_result, val_llm) ==
    IF ExtractionUnusable(extraction_result)
    THEN [response |-> ClarificationRequest(placeholder),
          extracted_value |-> None, validation_result |-> None,
          value_accepted |-> FALSE, needs_clarification |-> TRUE,
          confidence |-> extraction_result.confidence * 10000,
          extraction |-> Some(extraction_result), validation |-> None,
          validator_called |-> FALSE]
    ELSE AfterValidation(placeholder, extraction_result,
                         Validate(Get(extraction_result.extracted_value),
                                  TypeOf(placeholder), val_llm))

\* LangChainFiller.process_message.  The last three fields of its result
\* record the run of the pipeline: what the extractor returned, what the
\* validator returned, and whether validate was invoked
FillerProcessMessage(placeholder, message, ext_llm, val_llm, raised) ==
    IF raised
    THEN [response |-> [kind |-> "error"],
          extracted_value |-> None, validation_result |-> None,
          value_accepted |-> FALSE, needs_clarification |-> TRUE,
          confidence |-> 0,
          extraction |-> None, validation |-> None, validator_called |-> FALSE]
    ELSE AfterExtraction(placeholder, Extract(message, ext_llm), val_llm)

----------------------------------------------------------------------------
(* Repository and files *)

\* writing a file: the path is created or overwritten
Put(files, path, content) ==
    [q \in DOMAIN files \cup {path} |-> IF q = path THEN content ELSE files[q]]

UploadPath(filename) == <<"uploads", filename>>
TempPath(tid, filename) == <<"uploads", "temp", tid, filename>>
\* a variant of the output path that is the path of the working copy
GeneratedInPlace(title) == <<"uploads", "temp", "t1", title>>
GeneratedPath(title) == <<"uploads", "generated", title>>

Exists(document_id) == document_id \in 1..Len(docs)

\* a variant of the write that leaves out the record's temp_path
SaveWithoutTempPath(collection, document_id, document) ==
    [collection EXCEPT ![document_id] = [document EXCEPT !.temp_path = None]]

\* DocumentRepository.save of a record that has an id: every field but the id
\* is set from the caller's copy
Save(collection, document_id, document) == [collection EXCEPT ![document_id] = document]

\* DocumentRepository.update_langchain_session
UpdateLangchainSession(collection, document_id, session_id) ==
    [collection EXCEPT ![document_id].langchain_session_id = Some(session_id)]

----------------------------------------------------------------------------
(* Conversation service (services/placeholder_service.py) *)

\* next((p for p in placeholders if p.value is None), None), as an index;
\* 0 stands for None
RECURSIVE FirstUnfilledFrom(_, _)
FirstUnfilledFrom(placeholders, i) ==
    IF i > Len(placeholders) THEN 0
    ELSE IF IsNone(placeholders[i].value) THEN i
    ELSE FirstUnfilledFrom(placeholders, i + 1)

\* variants of the scan: one that looks at the head of the list alone, one
\* that takes the last unfilled placeholder
FirstUnfilledHeadOnly(placeholders) ==
    IF Len(placeholders) > 0 /\ IsNone(placeholders[1].value) THEN 1 ELSE 0
LastUnfilled(placeholders) ==
    IF \A i \in 1..Len(placeholders) : ~IsNone(placeholders[i].value) THEN 0
    ELSE CHOOSE i \in 1..Len(placeholders) :
            /\ IsNone(placeholders[i].value)
            /\ \A j \in (i + 1)..Len(placeholders) : ~IsNone(placeholders[j].value)

FirstUnfilled(placeholders) == FirstUnfilledFrom(placeholders, 1)

FilledCount(placeholders) ==
    Cardinality({i \in 1..Len(placeholders) : ~IsNone(placeholders[i].value)})
UnfilledCount(placeholders) ==
    Cardinality({i \in 1..Len(placeholders) : IsNone(placeholders[i].value)})

\* a variant of _calculate_progress that counts the placeholders without a
\* value as filled
ProgressCountingUnfilled(placeholders) ==
    [filled |-> UnfilledCount(placeholders),
     total |-> Len(placeholders),
     percentage |-> IF Len(placeholders) > 0
                    THEN (2000 * UnfilledCount(placeholders) + Len(placeholders))
                            \div (2 * Len(placeholders))
                    ELSE 0]

\* _calculate_progress; percentage in tenths of a percent
CalculateProgress(placeholders) ==
    [filled |-> FilledCount(placeholders),
     total |-> Len(placeholders),
     percentage |-> IF Len(placeholders) > 0
                    THEN (2000 * FilledCount(placeholders) + Len(placeholders))
                            \div (2 * Len(placeholders))
                    ELSE 0]

AssistantMessage(content, confidence) ==
    [role |-> "assistant", content |-> content, confidence |-> confidence]
UserMessage(text) ==
    [role |-> "user", content |-> [kind |-> "user", text |-> text], confidence |-> None]

\* start_session on a document that exists: the registry entry, the session
\* id written to the record, and, when a placeholder is unfilled, the first
\* question appended to the copy read at the start and that copy saved
StartSessionOn(collection, document_id, session_id) ==
    LET document == collection[document_id]
        first == FirstUnfilled(document.placeholders)
        updated == UpdateLangchainSession(collection, document_id, session_id)
        initial_message == [kind |-> "question",
                            question |-> InitialQuestion(document.placeholders[first])]
        asked == [document EXCEPT !.conversation_history =
                    Append(@, AssistantMessage(initial_message, None))]
    IN  IF first = 0
        THEN [docs |-> updated,
              ret |-> [op |-> "start_session", ok |-> TRUE, session_id |-> session_id,
                       document_id |-> document_id,
                       all_filled |-> TRUE, completed |-> TRUE,
                       current_placeholder |-> None, progress |-> None]]
        ELSE [docs |-> Save(updated, document_id, asked),
              ret |-> [op |-> "start_session", ok |-> TRUE, session_id |-> session_id,
                       document_id |-> document_id,
                       all_filled |-> FALSE, completed |-> FALSE,
                       current_placeholder |-> Some(document.placeholders[first]),
                       progress |-> Some(CalculateProgress(document.placeholders))]]

\* a variant of the write that sets every placeholder of the same text
SetValueByText(placeholders, current, value) ==
    [i \in 1..Len(placeholders) |->
        IF placeholders[i].placeholder = placeholders[current].placeholder
        THEN [placeholders[i] EXCEPT !.value = value]
        ELSE placeholders[i]]

\* "current_placeholder.value = result['extracted_value']"
SetValue(placeholders, current, value) ==
    [placeholders EXCEPT ![current].value = value]

\* what a turn did, beside what it returned: the index of the placeholder
\* handed to the pipeline (0: none) and the pipeline's run
Trace(current, result) ==
    [target |-> current, extraction |-> result.extraction,
     validation |-> result.validation, validator_called |-> result.validator_called]
NoPipeline ==
    [target |-> 0, extraction |-> None, validation |-> None, validator_called |-> FALSE]

\* process_message when no placeholder is unfilled
AllFilledTurn(document) ==
    [document |-> [document EXCEPT !.conversation_history =
                        Append(@, AssistantMessage([kind |-> "all_filled"], None))],
     ret |-> [op |-> "process_message", ok |-> TRUE,
              all_filled |-> TRUE, completed |-> TRUE, value_accepted |-> FALSE,
              needs_clarification |-> None, validation_result |-> None,
              response |-> [kind |-> "all_filled"],
              current_placeholder |-> None, next_placeholder |-> None,
              confidence |-> None,
              progress |-> CalculateProgress(document.placeholders),
              trace |-> NoPipeline]]

\* the accepted branch once the value is written: the next question, or the
\* completion message
AcceptedReply(document, heard, result, trace, filled, next, progress) ==
    IF next # 0
    THEN [document |-> [document EXCEPT
                            !.placeholders = filled,
                            !.conversation_history =
                                Append(heard,
                                       AssistantMessage(
                                           AcceptedResponse(filled[next],
                                                            Get(result.extracted_value),
                                                            progress),
                                           Some(result.confidence)))],
          ret |-> [op |-> "process_message", ok |-> TRUE,
                   all_filled |-> FALSE, completed |-> FALSE, value_accepted |-> TRUE,
                   needs_clarification |-> None,
                   validation_result |-> None,
                   response |-> AcceptedResponse(filled[next],
                                                 Get(result.extracted_value), progress),
                   current_placeholder |-> Some(filled[next]),
                   next_placeholder |-> Some(filled[next]),
                   confidence |-> Some(result.confidence),
                   progress |-> progress,
                   trace |-> trace]]
    ELSE [document |-> [document EXCEPT
                            !.placeholders = filled,
                            !.conversation_history =
                                Append(heard,
                                       AssistantMessage(CompletionMessage(progress),
                                                        Some(result.confidence)))],
          ret |-> [op |-> "process_message", ok |-> TRUE,
                   all_filled |-> TRUE, completed |-> TRUE, value_accepted |-> TRUE,
                   needs_clarification |-> None,
                   validation_result |-> None,
                   response |-> CompletionMessage(progress),
                   current_placeholder |-> None, next_placeholder |-> None,
                   confidence |-> Some(result.confidence),
                   progress |-> progress,
                   trace |-> trace]]

\* "if result.get('value_accepted')": the value is written to the current
\* placeholder and the list is scanned again
AcceptedTurn(document, heard, result, trace, filled) ==
    AcceptedReply(document, heard, result, trace, filled,
                  FirstUnfilled(filled), CalculateProgress(filled))

\* process_message after the filler has returned
PipelineTurn(document, heard, current, result) ==
    IF result.value_accepted
    THEN AcceptedTurn(document, heard, result, Trace(current, result),
                      SetValue(document.placeholders, current, result.extracted_value))
    ELSE [document |-> [document EXCEPT
                            !.conversation_history =
                                Append(heard, AssistantMessage(result.response,
                                                               Some(result.confidence)))],
          ret |-> [op |-> "process_message", ok |-> TRUE,
                   all_filled |-> FALSE, completed |-> FALSE, value_accepted |-> FALSE,
                   needs_clarification |-> Some(result.needs_clarification),
                   validation_result |-> result.validation_result,
                   response |-> result.response,
                   current_placeholder |-> Some(document.placeholders[current]),
                   next_placeholder |-> None,
                   confidence |-> Some(result.confidence),
                   progress |-> CalculateProgress(document.placeholders),
                   trace |-> Trace(current, result)]]

\* a variant of the turn that, when nothing is unfilled, hands the reply to
\* the last placeholder again
TurnOnLastWhenDone(document, current, message, ext_llm, val_llm, raised) ==
    IF Len(document.placeholders) = 0
    THEN AllFilledTurn(document)
    ELSE PipelineTurn(document,
                      Append(document.conversation_history, UserMessage(message)),
                      IF current = 0 THEN Len(document.placeholders) ELSE current,
                      FillerProcessMessage(
                          document.placeholders[IF current = 0
                                                THEN Len(document.placeholders)
                                                ELSE current],
                          message, ext_llm, val_llm, raised))

\* the turn on the placeholder found by the scan (0: none)
TurnOn(document, current, message, ext_llm, val_llm, raised) ==
    IF current = 0
    THEN AllFilledTurn(document)
    ELSE PipelineTurn(document,
                      Append(document.conversation_history, UserMessage(message)),
                      current,
                      FillerProcessMessage(document.placeholders[current], message,
                                           ext_llm, val_llm, raised))

\* process_message on the copy of the document read at the start of the
\* call: the copy as it is saved, and the response
ProcessTurn(document, message, ext_llm, val_llm, raised) ==
    TurnOn(document, FirstUnfilled(document.placeholders), message,
           ext_llm, val_llm, raised)

----------------------------------------------------------------------------
(* Document generator (services/document_generator_service.py) *)

\* a variant of the generator's test that refuses only an untouched document
BlockedWhenNothingFilled(placeholders) ==
    /\ Len(placeholders) > 0
    /\ \A i \in 1..Len(placeholders) : IsNone(placeholders[i].value)

\* "unfilled_count > 0": generation is refused
GenerationBlocked(placeholders) == UnfilledCount(placeholders) > 0

\* one run: "if marker in run.text: run.text = run.text.replace(marker, str(value))"
FillRun(run, marker, value) ==
    IF Contains(marker, run) THEN ReplaceAll(marker, value, run) ELSE run

\* one paragraph or table cell, entered only when its text holds the marker
FillPara(para, marker, value) ==
    IF Contains(marker, ParaText(para))
    THEN [k \in 1..Len(para) |-> FillRun(para[k], marker, value)]
    ELSE para

FillWith(content, placeholder) ==
    IF IsNone(placeholder.value) THEN content
    ELSE [paragraphs |-> [k \in 1..Len(content.paragraphs) |->
                            FillPara(content.paragraphs[k], placeholder.unique_marker,
                                     Get(placeholder.value))],
          tables |-> [k \in 1..Len(content.tables) |->
                            FillPara(content.tables[k], placeholder.unique_marker,
                                     Get(placeholder.value))]]

\* the loop over document.placeholders, from placeholder i on
RECURSIVE FillAll(_, _, _)
FillAll(content, placeholders, i) ==
    IF i > Len(placeholders) THEN content
    ELSE FillAll(FillWith(content, placeholders[i]), placeholders, i + 1)

----------------------------------------------------------------------------
(* Inputs *)

\* source documents: body paragraphs and table cells, each a sequence of runs
DupDoc ==
    [paragraphs |-> << << <<"w", "[", "Name">>, <<"]", "w", "[", "Name", "]">> >> >>,
     tables |-> <<>>]
NestedDoc ==
    [paragraphs |-> << << <<"[", "[", "Name", "]", "]">> >> >>,
     tables |-> << << <<"[", "Name", "]">> >> >>]
MixedDoc ==
    [paragraphs |-> << << <<"[", "date", "]">> >>, << <<"{", "Amount", "}">>, <<"w">> >> >>,
     tables |-> << << <<"[", "date", "]">> >> >>]
ProseDoc ==
    [paragraphs |-> << << <<"w">> >> >>, tables |-> <<>>]
SingleDoc ==
    [paragraphs |-> << << <<"w">>, <<"[", "date", "]">> >> >>, tables |-> <<>>]

\* a placeholder inside another in the body, and the outer one again in the
\* second table cell, split over two runs
NestedTableDoc ==
    [paragraphs |-> << << <<"[", "[", "Name", "]", "]">> >> >>,
     tables |-> << << <<"w">> >>, << <<"[", "[">>, <<"Name", "]", "]">> >> >>]
SampleDocs == {SingleDoc, DupDoc, NestedDoc, MixedDoc, ProseDoc}

\* what the detector's scoring call can give: -1 the call failed (the
\* heuristic decides), else the LLM's score in thousandths
DetectorOutcomes == {-1, 300}

\* what the analysis of a detection can give: None it raised, else the type
AnalysisOutcomes ==
    {None, Some([inferred_type |-> "text"]), Some([inferred_type |-> "date"])}

\* what the extractor's LLM call can give
ExtractorOutcomes ==
    {[failed |-> TRUE, extracted_value |-> None, confidence |-> 0,
      needs_clarification |-> FALSE],
     [failed |-> FALSE, extracted_value |-> None, confidence |-> 900,
      needs_clarification |-> FALSE],
     [failed |-> FALSE, extracted_value |-> Some(<<"Lexsy">>), confidence |-> 900,
      needs_clarification |-> TRUE]}
    \cup {[failed |-> FALSE, extracted_value |-> Some(v), confidence |-> 900,
           needs_clarification |-> FALSE] :
            v \in {<<"Lexsy">>, <<"12/25/2024">>, <<"M1">>}}

\* what the validator's LLM call can give: -1 it failed, else its score
ValidatorOutcomes == {-1, 0}

----------------------------------------------------------------------------
(* The v1 filler (app/openai/filler.py): _wait_for_run_completion polls a   *)
(* run of the remote assistant.                                              *)

\* the statuses a run can have at the provider
RunStatuses ==
    {"queued", "in_progress", "requires_action", "cancelling", "cancelled",
     "failed", "completed", "incomplete", "expired"}
\* the statuses a run does not leave
EndedStatuses == {"cancelled", "failed", "completed", "incomplete", "expired"}
\* run.status in ["failed", "cancelled", "expired"]
FailedStatuses == {"failed", "cancelled", "expired"}

\* the tool calls of a required action: the function asked for, and whether
\* its arguments decode to an object with placeholder_name and value
ToolCalls ==
    {[name |-> "save_placeholder", arguments |-> "ok"],
     [name |-> "save_placeholder", arguments |-> "malformed"],
     [name |-> "other", arguments |-> "ok"]}
MaxToolCalls == 2
ToolCallLists == UNION {[1..n -> ToolCalls] : n \in 1..MaxToolCalls}

\* the number of polls that is counted; further polls leave the count
MaxPolls == 3

\* no run has been created
NoRun ==
    [pc |-> "idle", status |-> "none", tool_calls |-> <<>>, seen |-> "none",
     polls |-> 0, outputs |-> 0]

\* the loop over tool_calls raises: json.loads or a key lookup fails on the
\* arguments of a save_placeholder call
ArgumentsRaise(tool_calls) ==
    \E k \in 1..Len(tool_calls) :
        tool_calls[k].name = "save_placeholder" /\ tool_calls[k].arguments = "malformed"

\* len(tool_outputs): one output per save_placeholder call
ToolOutputs(tool_calls) ==
    Cardinality({k \in 1..Len(tool_calls) : tool_calls[k].name = "save_placeholder"})

CountPoll(r) == IF r.polls < MaxPolls THEN r.polls + 1 ELSE r.polls

\* a variant of the loop body that also leaves the loop on "incomplete"
LoopBodyLeavingOnIncomplete(r, submit_raises) ==
    IF r.status \in {"completed", "incomplete"}
    THEN [r EXCEPT !.pc = "returned", !.seen = r.status]
    ELSE [r EXCEPT !.seen = r.status, !.polls = CountPoll(r)]

\* one iteration of the loop of _wait_for_run_completion once retrieve has
\* returned the run
LoopBody(r, submit_raises) ==
    IF r.status = "completed"
    THEN [r EXCEPT !.pc = "returned", !.seen = r.status]
    ELSE IF r.status = "requires_action"
    THEN IF ArgumentsRaise(r.tool_calls) \/ submit_raises
         THEN [r EXCEPT !.pc = "raised", !.seen = r.status]
         ELSE [r EXCEPT !.seen = r.status, !.status = "queued", !.tool_calls = <<>>,
                        !.outputs = ToolOutputs(r.tool_calls), !.polls = CountPoll(r)]
    ELSE IF r.status \in FailedStatuses
    THEN [r EXCEPT !.pc = "raised", !.seen = r.status]
    ELSE [r EXCEPT !.seen = r.status, !.polls = CountPoll(r)]

----------------------------------------------------------------------------
(* Operations *)

Init ==
    /\ fs = <<>>
    /\ docs = <<>>
    /\ active_sessions = <<>>
    /\ ret = [op |-> "init", ok |-> TRUE]
    /\ parseLog = <<>>
    /\ inflight = <<>>
    /\ assistant_run = NoRun

\* DocumentService.upload_and_parse
UploadAndParse(filename, tid, content, oracle, markers, analyses) ==
    LET file_path == UploadPath(filename)
        parsed == ParseDocument(content, oracle, markers, analyses)
        temp_doc_path == TempPath(tid, filename)
        document == [title |-> filename,
                     path |-> file_path,
                     temp_path |-> Some(temp_doc_path),
                     placeholders |-> parsed.placeholders,
                     langchain_session_id |-> None,
                     conversation_history |-> <<>>,
                     analysis_metadata |->
                        [total_placeholders |-> Len(parsed.placeholders)]]
    IN  /\ fs' = Put(Put(fs, file_path, content), temp_doc_path, parsed.temp)
        /\ docs' = Append(docs, document)
        /\ parseLog' = Append(parseLog, [source |-> content,
                                         detections |-> parsed.detections,
                                         scores |-> oracle])
        /\ ret' = [op |-> "upload_and_parse", ok |-> TRUE, id |-> Len(docs) + 1]
        /\ UNCHANGED <<active_sessions, inflight, assistant_run>>

\* the end of start_session: the session registered, the record as written
RegisterSession(document_id, done) ==
    /\ Len(done.docs[document_id].conversation_history) <= MaxHistory
    /\ active_sessions' = Append(active_sessions, document_id)
    /\ docs' = done.docs
    /\ ret' = done.ret
    /\ UNCHANGED <<fs, parseLog, inflight, assistant_run>>

\* a variant of start_session that registers the session before it looks
\* for the document
StartSessionRegisteringFirst(document_id) ==
    /\ Len(active_sessions) < MaxSessions
    /\ IF ~Exists(document_id)
       THEN /\ active_sessions' = Append(active_sessions, document_id)
            /\ ret' = [op |-> "start_session", ok |-> FALSE,
                       document_id |-> document_id]
            /\ UNCHANGED <<fs, docs, parseLog, inflight, assistant_run>>
       ELSE RegisterSession(document_id,
                            StartSessionOn(docs, document_id, Len(active_sessions) + 1))

\* PlaceholderService.start_session
StartSession(document_id) ==
    /\ Len(active_sessions) < MaxSessions
    /\ IF ~Exists(document_id)
       THEN /\ ret' = [op |-> "start_session", ok |-> FALSE,
                       document_id |-> document_id]
            /\ UNCHANGED <<fs, docs, active_sessions, parseLog, inflight, assistant_run>>
       ELSE RegisterSession(document_id,
                            StartSessionOn(docs, document_id, Len(active_sessions) + 1))

\* the end of process_message: the record saved, the response returned
SaveTurn(session_id, document_id, turn) ==
    /\ Len(turn.document.conversation_history) <= MaxHistory
    /\ docs' = Save(docs, document_id, turn.document)
    /\ ret' = turn.ret @@ [session_id |-> session_id, document_id |-> document_id]
    /\ UNCHANGED <<fs, active_sessions, parseLog, inflight, assistant_run>>

\* a variant of the registry lookup that falls back on the first document
SessionDocumentOrFirst(session_id) ==
    IF session_id \in 1..Len(active_sessions) THEN active_sessions[session_id]
    ELSE IF Len(docs) > 0 THEN 1
    ELSE 0

\* self.active_sessions.get(session_id); 0 stands for None
SessionDocument(session_id) ==
    IF session_id \in 1..Len(active_sessions) THEN active_sessions[session_id] ELSE 0

\* PlaceholderService.process_message
ProcessMessage(session_id, message, ext_llm, val_llm, raised) ==
    IF SessionDocument(session_id) = 0
    THEN /\ ret' = [op |-> "process_message", ok |-> FALSE, session_id |-> session_id]
         /\ UNCHANGED <<fs, docs, active_sessions, parseLog, inflight, assistant_run>>
    ELSE SaveTurn(session_id, SessionDocument(session_id),
                  ProcessTurn(docs[SessionDocument(session_id)], message,
                              ext_llm, val_llm, raised))

\* the record get_session_status returns
StatusOf(session_id, document_id, document, progress, current) ==
    [op |-> "get_session_status", ok |-> TRUE,
     session_id |-> session_id,
     document_id |-> document_id,
     filled_count |-> progress.filled,
     total_count |-> progress.total,
     completed |-> progress.filled = progress.total,
     current_placeholder |-> IF current = 0 THEN None
                             ELSE Some(document.placeholders[current]),
     conversation_history |-> document.conversation_history]

\* PlaceholderService.get_session_status
GetSessionStatus(session_id) ==
    /\ ret' = IF SessionDocument(session_id) = 0
              THEN [op |-> "get_session_status", ok |-> FALSE, session_id |-> session_id]
              ELSE StatusOf(session_id, SessionDocument(session_id),
                            docs[SessionDocument(session_id)],
                            CalculateProgress(docs[SessionDocument(session_id)].placeholders),
                            FirstUnfilled(docs[SessionDocument(session_id)].placeholders))
    /\ UNCHANGED <<fs, docs, active_sessions, parseLog, inflight, assistant_run>>

\* DocumentGeneratorService.generate_document; "overwrote" records whether
\* the output path held a file before the call
GenerateDocument(document_id) ==
    IF ~Exists(document_id)
    THEN /\ ret' = [op |-> "generate_document", ok |-> FALSE, document_id |-> document_id,
                    path |-> None, overwrote |-> FALSE]
         /\ UNCHANGED <<fs, docs, active_sessions, parseLog, inflight, assistant_run>>
    ELSE LET document == docs[document_id]
             doc_path == IF ~IsNone(document.temp_path) THEN Get(document.temp_path)
                         ELSE document.path
             generated_path == GeneratedPath(document.title)
         IN  IF GenerationBlocked(document.placeholders)
             THEN /\ ret' = [op |-> "generate_document", ok |-> FALSE,
                             document_id |-> document_id, path |-> None,
                             overwrote |-> FALSE]
                  /\ UNCHANGED <<fs, docs, active_sessions, parseLog, inflight, assistant_run>>
             ELSE /\ fs' = Put(fs, generated_path,
                               FillAll(fs[doc_path], document.placeholders, 1))
                  /\ ret' = [op |-> "generate_document", ok |-> TRUE,
                             document_id |-> document_id, path |-> Some(generated_path),
                             overwrote |-> generated_path \in DOMAIN fs]
                  /\ UNCHANGED <<docs, active_sessions, parseLog, inflight, assistant_run>>

\* an upload, with every outcome of detection, marker generation and analysis
\* that the given input sets allow
AnyUpload(samples, filenames, tids, outcomes, marker_atoms, analysis_outcomes) ==
    \E filename \in filenames, tid \in tids, content \in samples :
      \E oracle \in [ScoreCalls(FullText(content)) -> outcomes] :
        LET n == Len(DetectorRun(FullText(content), oracle)) IN
        \E markers \in [1..n -> marker_atoms], analyses \in [1..n -> analysis_outcomes] :
            UploadAndParse(filename, tid, content, oracle, markers, analyses)

\* the ids a caller may pass: those of the collection and one that is not
DocIds == 1..(Len(docs) + 1)
SessionIds == 1..(Len(active_sessions) + 1)

AnyStartSession == \E document_id \in DocIds : StartSession(document_id)

AnyProcessMessage ==
    \E session_id \in SessionIds, message \in Messages,
       ext_llm \in ExtractorOutcomes, val_llm \in ValidatorOutcomes :
        ProcessMessage(session_id, message, ext_llm, val_llm, FALSE)

\* a turn in which the pipeline raised
AnyFailedTurn ==
    \E session_id \in SessionIds, message \in Messages :
        ProcessMessage(session_id, message, CHOOSE e \in ExtractorOutcomes : e.failed,
                       -1, TRUE)

AnyGenerateDocument == \E document_id \in DocIds : GenerateDocument(document_id)

AnyGetSessionStatus == \E session_id \in SessionIds : GetSessionStatus(session_id)

\* The conversation on one document: one upload whose detector scoring calls
\* all fall back to the heuristic and whose analyses raise or infer a date,
\* then sessions, turns and generation
FirstUpload ==
    /\ docs = <<>>
    /\ AnyUpload({SingleDoc, DupDoc, ProseDoc}, {"a.docx"}, {"t1"}, {-1}, {"M1", "M2"},
                 {None, Some([inferred_type |-> "date"])})

Next ==
    \/ FirstUpload
    \/ AnyStartSession
    \/ AnyProcessMessage
    \/ AnyFailedTurn
    \/ AnyGenerateDocument
    \/ AnyGetSessionStatus

Spec == Init /\ [][Next]_vars

\* Parsing alone: uploads with every outcome of the detector's scoring calls
ParseUpload ==
    /\ Len(docs) < MaxDocs
    /\ AnyUpload(SampleDocs, {"a.docx"}, {"t1"}, DetectorOutcomes, MarkerAtoms,
                 AnalysisOutcomes)

NextParse == ParseUpload

SpecParse == Init /\ [][NextParse]_vars

\* Detection alone: one upload of each sample, with every scoring call
\* failing, scoring low or scoring high
DetectUpload ==
    /\ docs = <<>>
    /\ AnyUpload(SampleDocs \cup {NestedTableDoc}, {"a.docx"}, {"t1"}, {-1, 300, 800},
                 {"M1"}, {None})

NextDetect == DetectUpload

SpecDetect == Init /\ [][NextDetect]_vars

\* Files of several documents: uploads under file names that may repeat,
\* with temp-file tags (uuid4().hex[:8]) that may repeat, and generation
MaxUploads == 2       \* uploads explored when several documents share the directory

FilesUpload ==
    /\ Len(docs) < MaxUploads
    /\ AnyUpload({ProseDoc, SingleDoc}, {"a.docx", "b.docx"}, {"t1", "t2"}, {-1},
                 {"M1"}, {None})

NextFiles ==
    \/ FilesUpload
    \/ AnyGenerateDocument

SpecFiles == Init /\ [][NextFiles]_vars

\* The validator alone: validate called on a value and a type with every
\* outcome of its LLM stage, and called again on a value it accepted
ValidatorValues ==
    {<<>>} \cup {<<a>> : a \in {"Lexsy", "yes", "x", "AZ", " ", "12/25/2024",
                                 "13/45/2024", "01/01/1800", "john@company.com",
                                 "5551234567", "12345"}}

\* the calls explored: every value with every type, but for the strings of
\* digits as dates, which are left to the date parser
ValidatorCalls ==
    {c \in [value : ValidatorValues, placeholder_type : PlaceholderType] :
        ~(c.placeholder_type = "date" /\ c.value \in {<<"5551234567">>, <<"12345">>})}

\* what the LLM stage can answer, in thousandths; -1 the call failed or
\* the answer was no number
ScoreOutcomes == {-1, -500, 0, 100, 250, 300, 1000, 1200}

\* HybridValidator.validate called with a value and a type
ValidateCall(call, rule_result, llm_outcome) ==
    /\ ret' = [op |-> "validate", ok |-> TRUE,
               value |-> call.value,
               placeholder_type |-> call.placeholder_type,
               rule |-> [passed |-> rule_result.passed,
                         confidence |-> rule_result.confidence,
                         message |-> rule_result.message,
                         suggestion |-> rule_result.suggestion],
               llm_confidence |-> LlmConfidenceCheck(llm_outcome),
               result |-> ValidateWith(rule_result, call.placeholder_type, llm_outcome),
               first |-> None]
    /\ UNCHANGED <<fs, docs, active_sessions, parseLog, inflight, assistant_run>>

\* HybridValidator.validate called a second time with the value and type of
\* a call that accepted the value; "first" keeps the earlier result
ValidateAgain(llm_outcome) ==
    /\ ret.op = "validate"
    /\ IsNone(ret.first)
    /\ ret.result.is_valid
    /\ ret' = [ret EXCEPT
                !.llm_confidence = LlmConfidenceCheck(llm_outcome),
                !.result = ValidateWith(ret.rule, ret.placeholder_type, llm_outcome),
                !.first = Some(ret.result)]
    /\ UNCHANGED <<fs, docs, active_sessions, parseLog, inflight, assistant_run>>

AnyValidateCall ==
    \E call \in ValidatorCalls, llm_outcome \in ScoreOutcomes :
        ValidateCall(call, RuleBasedValidation(call.value, call.placeholder_type),
                     llm_outcome)

AnyValidateAgain == \E llm_outcome \in ScoreOutcomes : ValidateAgain(llm_outcome)

NextValidate ==
    \/ AnyValidateCall
    \/ AnyValidateAgain

SpecValidate == Init /\ [][NextValidate]_vars

----------------------------------------------------------------------------
(* The extractor alone: one call of extract on a message of a few words,    *)
(* the LLM answering or failing.                                             *)

\* the words of the messages given to the extractor
FallbackAtoms == {"it", "is", "5", "Lexsy", "and", "its", "called", "What", LongWord}
MaxWords == 3
ExtractorMessages == UNION {[1..n -> FallbackAtoms] : n \in 0..MaxWords}

\* ValueExtractor.extract as a call of its own
ExtractCall(words, llm, extraction) ==
    /\ ret' = [op |-> "extract", ok |-> TRUE, message |-> words,
               fallback |-> llm.failed,
               result |-> [extracted_value |-> extraction.extracted_value,
                           confidence |-> extraction.confidence,
                           needs_clarification |-> extraction.needs_clarification,
                           reasoning |-> extraction.reasoning]]
    /\ UNCHANGED <<fs, docs, active_sessions, parseLog, inflight, assistant_run>>

AnyExtractCall ==
    \E words \in ExtractorMessages, llm \in ExtractorOutcomes :
        ExtractCall(words, llm, ExtractOnWords(words, llm))

NextExtract == AnyExtractCall
SpecExtract == Init /\ [][NextExtract]_vars

----------------------------------------------------------------------------
(* The v1 wait: a run is created, the provider moves it from status to      *)
(* status, and _wait_for_run_completion polls it every half second.         *)

\* runs.create, followed by the call of _wait_for_run_completion
CreateRun ==
    /\ assistant_run.pc = "idle"
    /\ assistant_run' = [NoRun EXCEPT !.pc = "polling", !.status = "queued"]
    /\ UNCHANGED <<fs, docs, active_sessions, ret, parseLog, inflight>>

\* the provider changes the status of a run that has not ended; a run that
\* requires action waits for the tool outputs or ends
ProviderStep(status, tool_calls) ==
    /\ assistant_run.pc # "idle"
    /\ assistant_run.status \notin EndedStatuses
    /\ status # assistant_run.status
    /\ assistant_run.status = "requires_action" => status \in EndedStatuses \cup {"cancelling"}
    /\ assistant_run' = [assistant_run EXCEPT !.status = status,
                          !.tool_calls = IF status = "requires_action"
                                         THEN tool_calls ELSE <<>>]
    /\ UNCHANGED <<fs, docs, active_sessions, ret, parseLog, inflight>>

\* one iteration of the loop: retrieve raises, or the loop body runs on the
\* status retrieved
Poll(retrieve_raises, submit_raises) ==
    /\ assistant_run.pc = "polling"
    /\ assistant_run' = IF retrieve_raises
              THEN [assistant_run EXCEPT !.pc = "raised", !.seen = "none"]
              ELSE LoopBody(assistant_run, submit_raises)
    /\ UNCHANGED <<fs, docs, active_sessions, ret, parseLog, inflight>>

AnyProviderStep ==
    \E status \in RunStatuses, tool_calls \in ToolCallLists :
        ProviderStep(status, tool_calls)
AnyPoll == \E retrieve_raises, submit_raises \in BOOLEAN : Poll(retrieve_raises, submit_raises)

NextWait == CreateRun \/ AnyProviderStep \/ AnyPoll
\* the event loop resumes the waiting call after each sleep
SpecWait == Init /\ [][NextWait]_vars /\ WF_vars(AnyPoll)

----------------------------------------------------------------------------
(* Overlapping process_message calls.  A call gives up control where it     *)
(* awaits the repository (find_by_id, save); nothing in the service holds a *)
(* lock, so a second call of any session can run between the two.  The LLM  *)
(* calls between them answer, raise, or have not answered yet.              *)

MaxInflight == 2      \* process_message calls in progress at once

\* the calls in progress, by the slot that identifies them
Slots == 1..MaxInflight
Busy(slot) == slot \in DOMAIN inflight
FreeSlot == CHOOSE slot \in Slots : ~Busy(slot) /\ \A k \in 1..(slot - 1) : Busy(k)

\* what the provider calls of one turn give: the extractor's and the
\* validator's answers, or a failure the pipeline's handler catches
TurnOutcomes ==
    {[ext_llm |-> e, val_llm |-> -1, raised |-> FALSE] :
        e \in {x \in ExtractorOutcomes :
                \/ x.failed
                \/ /\ ~x.needs_clarification
                   /\ x.extracted_value \in {Some(<<"Lexsy">>), Some(<<"12/25/2024">>)}}}
    \cup {[ext_llm |-> CHOOSE e \in ExtractorOutcomes : e.failed,
           val_llm |-> -1, raised |-> TRUE]}

\* the answer of a turn that makes no provider call: process_message's
\* all-filled branch reads none of it
NoProviderCall == CHOOSE o \in TurnOutcomes : o.raised

\* process_message up to the return of `await find_by_id`: the call holds
\* its own copy of the record; with no unfilled placeholder it makes no
\* provider call
ReadDocument(slot, session_id, document_id, message, document) ==
    /\ Len(document.conversation_history) + 2 <= MaxHistory
    /\ inflight' = Put(inflight, slot,
                       [session_id |-> session_id,
                        document_id |-> document_id,
                        message |-> message,
                        document |-> document,
                        answer |-> IF FirstUnfilled(document.placeholders) = 0
                                   THEN Some(NoProviderCall)
                                   ELSE None])
    /\ UNCHANGED <<fs, docs, active_sessions, ret, parseLog, assistant_run>>

BeginTurn(session_id, message) ==
    /\ \E slot \in Slots : ~Busy(slot)
    /\ SessionDocument(session_id) # 0
    /\ ReadDocument(FreeSlot, session_id, SessionDocument(session_id), message,
                    docs[SessionDocument(session_id)])

\* self.llm.invoke returns or raises: the provider's step, not the program's
LLMResponds(slot, outcome) ==
    /\ Busy(slot)
    /\ IsNone(inflight[slot].answer)
    /\ inflight' = [inflight EXCEPT ![slot].answer = Some(outcome)]
    /\ UNCHANGED <<fs, docs, active_sessions, ret, parseLog, assistant_run>>

\* the rest of process_message: the copy read at the start, changed by the
\* turn, is written over the record, and the response returned
WriteTurn(slot, request, turn) ==
    /\ docs' = Save(docs, request.document_id, turn.document)
    /\ ret' = turn.ret @@ [session_id |-> request.session_id,
                           document_id |-> request.document_id]
    /\ inflight' = [k \in DOMAIN inflight \ {slot} |-> inflight[k]]
    /\ UNCHANGED <<fs, active_sessions, parseLog, assistant_run>>

TurnOf(request, outcome) ==
    ProcessTurn(request.document, request.message,
                outcome.ext_llm, outcome.val_llm, outcome.raised)

EndTurn(slot) ==
    /\ Busy(slot)
    /\ ~IsNone(inflight[slot].answer)
    /\ WriteTurn(slot, inflight[slot], TurnOf(inflight[slot], Get(inflight[slot].answer)))

ConcUpload ==
    /\ docs = <<>>
    /\ AnyUpload({DupDoc}, {"a.docx"}, {"t1"}, {-1}, {"M1", "M2"}, {None})

AnyBeginTurn ==
    \E session_id \in 1..Len(active_sessions) : BeginTurn(session_id, "yes")

AnyLLMResponds == \E slot \in Slots, outcome \in TurnOutcomes : LLMResponds(slot, outcome)

AnyEndTurn == \E slot \in Slots : EndTurn(slot)

NextConc ==
    \/ ConcUpload
    \/ AnyStartSession
    \/ AnyBeginTurn
    \/ AnyLLMResponds
    \/ AnyEndTurn

SpecConc == Init /\ [][NextConc]_vars

\* The event loop resumes a call whose provider calls have answered; nothing
\* in the code makes a provider call answer
SpecLive == SpecConc /\ \A slot \in Slots : WF_vars(EndTurn(slot))

----------------------------------------------------------------------------
(* Filling and generation: one upload of a document whose placeholders      *)
(* repeat or lie inside one another, the conversation that fills it, and    *)
(* the generation of the output.                                             *)

GenerateUpload ==
    /\ docs = <<>>
    /\ AnyUpload({SingleDoc, DupDoc, NestedDoc}, {"a.docx"}, {"t1"}, {-1}, {"M1", "M2"},
                 {None})

GenerateTurn ==
    \E session_id \in SessionIds, outcome \in TurnOutcomes :
        ProcessMessage(session_id, "yes", outcome.ext_llm, outcome.val_llm, outcome.raised)

NextGenerate ==
    \/ GenerateUpload
    \/ AnyStartSession
    \/ GenerateTurn
    \/ AnyGenerateDocument

SpecGenerate == Init /\ [][NextGenerate]_vars

----------------------------------------------------------------------------
(* Properties of parsing and templating *)

\* the working copy of document d
WorkingCopy(d) == fs[Get(docs[d].temp_path)]

\* the document the last upload created
Uploaded == ret.op = "upload_and_parse" /\ ret.ok

MarkersOf(d) == {docs[d].placeholders[i].unique_marker : i \in 1..Len(docs[d].placeholders)}
MarkersDistinct(d) == Cardinality(MarkersOf(d)) = Len(docs[d].placeholders)

\* C1: In every document produced by parse_document the unique_marker values
\* of the placeholders are pairwise distinct: there are as many distinct
\* markers as placeholders, whatever marker generation returned.
C1_MarkersPairwiseDistinct ==
    \A d \in 1..Len(docs) : MarkersDistinct(d)

\* C2: When the source holds a placeholder text exactly twice and both
\* occurrences were detected, the two placeholders get distinct markers, each
\* of the two markers occurs exactly once in the working copy that
\* _create_temp_document leaves, and the original text occurs in it no more.
C2_DuplicateTextReplacedOnce ==
    Uploaded =>
        LET d == ret.id
            placeholders == docs[d].placeholders
            source == FlatText(parseLog[d].source)
            work == FlatText(WorkingCopy(d))
        IN  \A i, j \in 1..Len(placeholders) :
                (/\ i < j
                 /\ placeholders[i].placeholder = placeholders[j].placeholder
                 /\ CountOcc(placeholders[i].placeholder, source) = 2)
                => /\ placeholders[i].unique_marker # placeholders[j].unique_marker
                   /\ CountOcc(placeholders[i].unique_marker, work) = 1
                   /\ CountOcc(placeholders[j].unique_marker, work) = 1
                   /\ CountOcc(placeholders[i].placeholder, work) = 0

\* the source text with every detected span replaced by the marker of its
\* placeholder, read from the 0-based position pos on
RECURSIVE MarkedAtDetections(_, _, _, _)
MarkedAtDetections(text, detections, placeholders, pos) ==
    IF pos >= Len(text) THEN <<>>
    ELSE IF \E k \in 1..Len(detections) : detections[k].start_pos = pos
         THEN LET k == CHOOSE k \in 1..Len(detections) : detections[k].start_pos = pos
              IN  placeholders[k].unique_marker
                    \o MarkedAtDetections(text, detections, placeholders,
                                          detections[k].end_pos)
         ELSE <<text[pos + 1]>>
                \o MarkedAtDetections(text, detections, placeholders, pos + 1)

\* C3: After templating, the marker of every placeholder occurs in the
\* working copy exactly once, and it stands where the occurrence that the
\* placeholder was detected at stood, for every outcome of the detector's
\* scoring calls.  (Stated for documents whose markers are pairwise distinct,
\* so that a violation is not the marker collision of C1.)
C3_MarkerAtDetectedOccurrence ==
    (Uploaded /\ MarkersDistinct(ret.id)) =>
        LET d == ret.id
            placeholders == docs[d].placeholders
        IN  /\ \A i \in 1..Len(placeholders) :
                    CountOcc(placeholders[i].unique_marker, FlatText(WorkingCopy(d))) = 1
            /\ FullText(WorkingCopy(d))
                 = MarkedAtDetections(FullText(parseLog[d].source),
                                      parseLog[d].detections, placeholders, 0)

----------------------------------------------------------------------------
(* Properties of the conversation and of generation *)

\* the first placeholder in list order without a value; 0 when none is left
LeastUnfilled(placeholders) ==
    IF \A i \in 1..Len(placeholders) : ~IsNone(placeholders[i].value) THEN 0
    ELSE CHOOSE i \in 1..Len(placeholders) :
            /\ IsNone(placeholders[i].value)
            /\ \A j \in 1..(i - 1) : ~IsNone(placeholders[j].value)

Unfilled(placeholders) == {i \in 1..Len(placeholders) : IsNone(placeholders[i].value)}

\* the step is a generate_document call on a document that exists
GenerateStep == ret'.op = "generate_document" /\ Exists(ret'.document_id)

\* the step is a process_message call of a registered session
TurnStep == ret'.op = "process_message" /\ ret'.ok

\* process_message has told the caller that document d is complete
ToldCompleted(d) ==
    \E k \in 1..Len(docs[d].conversation_history) :
        docs[d].conversation_history[k].content.kind \in {"completion", "all_filled"}

\* C4: generate_document fails and writes no file whenever a placeholder of
\* the document has no value, the failed call leaves the document record and
\* every file (the working copy included) as they were, and a call made when
\* no placeholder lacks a value is not refused.
C4_GenerationBlockedWhileUnfilled ==
    [][GenerateStep =>
        LET d == ret'.document_id
        IN  IF Unfilled(docs[d].placeholders) # {}
            THEN /\ ~ret'.ok
                 /\ IsNone(ret'.path)
                 /\ fs' = fs
                 /\ docs' = docs
            ELSE ret'.ok]_vars

\* a refused generation of a document that is filled in part
C4_Witness ==
    /\ ret.op = "generate_document"
    /\ Exists(ret.document_id)
    /\ ~ret.ok
    /\ Unfilled(docs[ret.document_id].placeholders) # {}
    /\ Cardinality(Unfilled(docs[ret.document_id].placeholders))
            < Len(docs[ret.document_id].placeholders)

\* C5: After a generate_document call that succeeded, no unique_marker of the
\* document's placeholders occurs in the generated file, in a paragraph or in
\* a table cell, whatever values the conversation accepted.
C5_NoMarkerInOutput ==
    (ret.op = "generate_document" /\ ret.ok) =>
        \A i \in 1..Len(docs[ret.document_id].placeholders) :
            CountOcc(docs[ret.document_id].placeholders[i].unique_marker,
                     FlatText(fs[Get(ret.path)])) = 0

\* C6: process_message returns completed = true exactly when no placeholder
\* is without a value after the turn, and a generate_document call on a
\* document for which process_message has returned completed = true succeeds.
C6_CompletedIffAllFilled ==
    [][/\ TurnStep =>
            (ret'.completed <=> Unfilled(docs'[ret'.document_id].placeholders) = {})
       /\ (GenerateStep /\ ToldCompleted(ret'.document_id)) => ret'.ok]_vars

\* a document with placeholders, completed by the conversation and generated
C6_Witness ==
    /\ ret.op = "generate_document"
    /\ ret.ok
    /\ Len(docs[ret.document_id].placeholders) > 0
    /\ ToldCompleted(ret.document_id)

\* C7: Every process_message call hands the reply to the first placeholder in
\* list order that has no value in the record the call read (to none when all
\* have one); the progress and the current placeholder it returns are
\* computed from the placeholder list alone.
C7_TargetIsFirstUnfilled ==
    [][TurnStep =>
        LET old == docs[ret'.document_id].placeholders
            new == docs'[ret'.document_id].placeholders
        IN  /\ ret'.trace.target = LeastUnfilled(old)
            /\ ret'.progress.total = Len(new)
            /\ ret'.progress.filled = Len(new) - Cardinality(Unfilled(new))
            /\ ret'.current_placeholder =
                    IF LeastUnfilled(new) = 0 THEN None
                    ELSE Some(new[LeastUnfilled(new)])]_vars

\* a turn whose reply went to the second placeholder of the list
C7_Witness ==
    /\ ret.op = "process_message"
    /\ ret.ok
    /\ ret.trace.target = 2

\* C8: A turn that accepts a value sets the value of the current placeholder,
\* and of no other, to the extracted value; the unfilled count drops by
\* exactly one; the turn then asks for the next unfilled placeholder in list
\* order, or completes when none is left.
C8_AcceptedTurnFillsCurrentOnly ==
    [][(TurnStep /\ ret'.value_accepted) =>
        LET old == docs[ret'.document_id].placeholders
            new == docs'[ret'.document_id].placeholders
            t == LeastUnfilled(old)
        IN  /\ t # 0
            /\ Len(new) = Len(old)
            /\ new[t] = [old[t] EXCEPT
                            !.value = Get(ret'.trace.extraction).extracted_value]
            /\ ~IsNone(new[t].value)
            /\ \A j \in 1..Len(old) : j # t => new[j] = old[j]
            /\ Cardinality(Unfilled(new)) = Cardinality(Unfilled(old)) - 1
            /\ IF Unfilled(new) = {}
               THEN /\ ret'.completed
                    /\ ret'.response.kind = "completion"
                    /\ IsNone(ret'.next_placeholder)
               ELSE /\ ~ret'.completed
                    /\ ret'.response.kind = "accepted"
                    /\ ret'.response.question = InitialQuestion(new[LeastUnfilled(new)])
                    /\ ret'.next_placeholder = Some(new[LeastUnfilled(new)])]_vars

\* an accepted value after which another placeholder is asked for
C8_Witness ==
    /\ ret.op = "process_message"
    /\ ret.ok
    /\ ret.value_accepted
    /\ ~ret.completed
    /\ ret.response.kind = "accepted"

\* the extractor returned no value, or asked for clarification
ExtractionAmbiguous(trace) ==
    /\ ~IsNone(trace.extraction)
    /\ \/ IsNone(Get(trace.extraction).extracted_value)
       \/ Get(trace.extraction).needs_clarification

\* C9: When the extractor returns no value or asks for clarification, the
\* turn writes no placeholder value, does not invoke the validator, returns
\* value_accepted = false and needs_clarification = true, and the current
\* placeholder after the turn is the one before it.
C9_AmbiguousExtractionKeepsPlaceholder ==
    [][(TurnStep /\ ExtractionAmbiguous(ret'.trace)) =>
        LET old == docs[ret'.document_id].placeholders
            new == docs'[ret'.document_id].placeholders
        IN  /\ new = old
            /\ ~ret'.trace.validator_called
            /\ IsNone(ret'.trace.validation)
            /\ ~ret'.value_accepted
            /\ ret'.needs_clarification = Some(TRUE)
            /\ ret'.response.kind = "clarification"
            /\ LeastUnfilled(new) = LeastUnfilled(old)
            /\ ret'.current_placeholder = Some(old[LeastUnfilled(old)])]_vars

\* a turn whose extraction carried a value and asked for clarification
C9_Witness ==
    /\ ret.op = "process_message"
    /\ ret.ok
    /\ ~IsNone(ret.trace.extraction)
    /\ ~IsNone(Get(ret.trace.extraction).extracted_value)
    /\ Get(ret.trace.extraction).needs_clarification

\* the validator ran and returned is_valid = false
ValidationRejected(trace) ==
    /\ ~IsNone(trace.validation)
    /\ ~Get(trace.validation).is_valid

\* C10: When the validator returns is_valid = false, by a rule or by a final
\* confidence not above 0.5, the turn writes no placeholder value, returns
\* value_accepted = false, answers with the validator's message and its
\* suggested correction, and the same placeholder stays current.
C10_RejectedValueKeepsPlaceholder ==
    [][(TurnStep /\ ValidationRejected(ret'.trace)) =>
        LET old == docs[ret'.document_id].placeholders
            new == docs'[ret'.document_id].placeholders
            validation_result == Get(ret'.trace.validation)
        IN  /\ new = old
            /\ ~ret'.value_accepted
            /\ ret'.response.kind = "invalid"
            /\ ret'.response.message = validation_result.validation_message
            /\ ret'.response.example = validation_result.suggested_correction
            /\ ret'.validation_result = Some(validation_result)
            /\ LeastUnfilled(new) = LeastUnfilled(old)
            /\ ret'.current_placeholder = Some(old[LeastUnfilled(old)])]_vars

\* a value rejected by a rule that suggests a correction
C10_Witness ==
    /\ ret.op = "process_message"
    /\ ret.ok
    /\ ~ret.value_accepted
    /\ ~IsNone(ret.validation_result)
    /\ ~Get(ret.validation_result).is_valid
    /\ ~IsNone(Get(ret.validation_result).suggested_correction)
    /\ ret.response.kind = "invalid"

\* C11: Once every placeholder of a document has a value it keeps them all:
\* no step changes a placeholder of the document, and every further
\* process_message on it returns completed = true with value_accepted =
\* false, whatever the message and whatever the extractor and the validator
\* would have answered.
C11_CompletedIsTerminal ==
    [][/\ \A d \in 1..Len(docs) :
            Unfilled(docs[d].placeholders) = {}
            => /\ d \in 1..Len(docs')
               /\ docs'[d].placeholders = docs[d].placeholders
       /\ (TurnStep /\ Unfilled(docs[ret'.document_id].placeholders) = {})
            => /\ ret'.completed
               /\ ~ret'.value_accepted]_vars

\* a further turn on a document with placeholders after it was completed
C11_Witness ==
    /\ ret.op = "process_message"
    /\ ret.ok
    /\ ret.response.kind = "all_filled"
    /\ Len(docs[ret.document_id].placeholders) > 0
    /\ ToldCompleted(ret.document_id)

\* the progress record agrees with the placeholder list: the counts add up
\* and the percentage, in tenths of a percent, is the nearest to
\* filled / total * 100 (0 when there is no placeholder)
ProgressOf(progress, placeholders) ==
    /\ progress.filled = Len(placeholders) - Cardinality(Unfilled(placeholders))
    /\ progress.filled + Cardinality(Unfilled(placeholders)) = progress.total
    /\ progress.total = Len(placeholders)
    /\ 2 * progress.percentage * progress.total - 2000 * progress.filled
            <= progress.total
    /\ 2000 * progress.filled - 2 * progress.percentage * progress.total
            <= progress.total
    /\ progress.total = 0 => progress.percentage = 0

\* C12: Every progress record returned by start_session or process_message
\* has filled + unfilled = total, counted on the placeholders of the record
\* the call persisted, and percentage = round(filled / total * 100, 1); for
\* a document without placeholders the record is 0 of 0, 0 percent.
C12_ProgressMatchesPlaceholders ==
    /\ (ret.op = "process_message" /\ ret.ok)
        => ProgressOf(ret.progress, docs[ret.document_id].placeholders)
    /\ (ret.op = "start_session" /\ ret.ok /\ ~IsNone(ret.progress))
        => ProgressOf(Get(ret.progress), docs[ret.document_id].placeholders)

\* a turn that returned the progress 1 of 2
C12_Witness ==
    /\ ret.op = "process_message"
    /\ ret.ok
    /\ ret.progress.total = 2
    /\ ret.progress.filled = 1
    /\ ret.progress.percentage = 500

\* C14: A process_message call of one session leaves the placeholder values
\* and the conversation history that every other registered session works
\* on as they were, so that interleaved calls of two sessions give each the
\* result it would have had alone.
C14_SessionsIndependent ==
    [][TurnStep =>
        \A s \in 1..Len(active_sessions) :
            s # ret'.session_id
            => /\ docs'[active_sessions[s]].placeholders
                    = docs[active_sessions[s]].placeholders
               /\ docs'[active_sessions[s]].conversation_history
                    = docs[active_sessions[s]].conversation_history]_vars

\* C19: generate_document never changes the document record, the working
\* copy or the uploaded source, and a call that finds the output of an
\* earlier call, the placeholder values being what they were, writes the
\* same content again.
C19_GenerationLeavesInputsAlone ==
    [][GenerateStep =>
        LET d == ret'.document_id
        IN  /\ docs' = docs
            /\ fs'[Get(docs[d].temp_path)] = fs[Get(docs[d].temp_path)]
            /\ fs'[docs[d].path] = fs[docs[d].path]
            /\ (ret'.ok /\ ret'.overwrote) => fs' = fs]_vars

\* a generation that wrote over the output of an earlier one
C19_Witness ==
    /\ ret.op = "generate_document"
    /\ ret.ok
    /\ ret.overwrote
    /\ Len(docs[ret.document_id].placeholders) > 0

\* generate_document has produced output for document d
OutputProduced(d) == GeneratedPath(docs[d].title) \in DOMAIN fs

\* C20: Once generate_document has produced output for a document, no later
\* start_session, process_message or generate_document call changes any field
\* of the document's record.
C20_ReadOnlyAfterGeneration ==
    [][\A d \in 1..Len(docs) : OutputProduced(d) => docs'[d] = docs[d]]_vars

\* C18: process_message and get_session_status with a session id that is not
\* registered, and start_session with a document id that does not exist,
\* fail, and the failed call adds no registry entry, writes no placeholder
\* value, appends no message and changes no file.
C18_UnknownIdsChangeNothing ==
    [][/\ (/\ ret'.op \in {"process_message", "get_session_status"}
           /\ ret'.session_id \notin 1..Len(active_sessions))
            => /\ ~ret'.ok
               /\ UNCHANGED <<fs, docs, active_sessions>>
       /\ (/\ ret'.op = "start_session"
           /\ ret'.document_id \notin 1..Len(docs))
            => /\ ~ret'.ok
               /\ UNCHANGED <<fs, docs, active_sessions>>]_vars

\* a refused call with an unknown session id while a session is open
C18_Witness ==
    /\ ret.op \in {"process_message", "get_session_status"}
    /\ ~ret.ok
    /\ ret.session_id \notin 1..Len(active_sessions)
    /\ Len(active_sessions) > 0
    /\ Unfilled(docs[active_sessions[1]].placeholders) # {}

\* C16: An upload whose detection yields no placeholder is rejected: no
\* document record is persisted for it, and the call that reports success
\* has found at least one placeholder.
C16_EmptyDetectionRejected ==
    /\ \A d \in 1..Len(docs) : parseLog[d].detections # <<>>
    /\ Uploaded => docs[ret.id].placeholders # <<>>

\* templating did not find the text of placeholder i of document d: its
\* marker, which no other placeholder has, is not in the working copy
Unlocated(d, i) ==
    /\ MarkersDistinct(d)
    /\ CountOcc(docs[d].placeholders[i].unique_marker, FlatText(WorkingCopy(d))) = 0

\* C17: When templating cannot find a placeholder's text in the working
\* copy, the upload still succeeds and the placeholders after it are
\* templated; the placeholder stays in the list, without a value and so
\* fillable, and its record carries a flag that marks it as unresolved.
C17_UnlocatedPlaceholderFlagged ==
    Uploaded =>
        \A i \in 1..Len(docs[ret.id].placeholders) :
            Unlocated(ret.id, i)
            => /\ IsNone(docs[ret.id].placeholders[i].value)
               /\ "unresolved" \in DOMAIN docs[ret.id].placeholders[i]

----------------------------------------------------------------------------
(* Properties of overlapping calls *)

IsPrefixOf(s, t) == Len(s) <= Len(t) /\ \A k \in 1..Len(s) : t[k] = s[k]

\* C13: The turns of one session are processed one after the other: no
\* call reads the record that a call in progress has yet to save.  So while
\* a single session is open, a value once accepted stays in the record as it
\* was accepted, and every message appended to the conversation history
\* stays in it, in its place.
C13_TurnsNeverOverwrite ==
    [][Len(active_sessions') = 1 =>
        \A d \in 1..Len(docs) :
          /\ IsPrefixOf(docs[d].conversation_history, docs'[d].conversation_history)
          /\ \A i \in 1..Len(docs[d].placeholders) :
                ~IsNone(docs[d].placeholders[i].value)
                => docs'[d].placeholders[i].value = docs[d].placeholders[i].value]_vars

\* C15: Every turn ends with a response: whatever the provider calls do, a
\* process_message call that has read its document eventually returns.
C15_EveryTurnReturns == \A slot \in Slots : Busy(slot) ~> ~Busy(slot)

----------------------------------------------------------------------------
(* Properties of files and of the session registry *)

\* the step is a call of the conversation service
ConversationStep == ret'.op \in {"start_session", "process_message", "get_session_status"}

\* C21: The conversation service never changes a working copy: a
\* start_session, process_message or get_session_status call leaves every
\* file as it was and leaves the temp_path of every document as the upload
\* set it.
C21_ConversationLeavesWorkingCopy ==
    [][ConversationStep =>
        /\ fs' = fs
        /\ Len(docs') = Len(docs)
        /\ \A d \in 1..Len(docs) : docs'[d].temp_path = docs[d].temp_path]_vars

\* the last turn completed the document, and its working copy still holds
\* the marker of the first placeholder
C21_Witness ==
    /\ ret.op = "process_message"
    /\ ret.ok
    /\ ret.value_accepted
    /\ ret.completed
    /\ ~IsNone(docs[ret.document_id].temp_path)
    /\ Contains(docs[ret.document_id].placeholders[1].unique_marker,
                FlatText(WorkingCopy(ret.document_id)))

\* the step is an operation on document d: its upload or its generation
StepOn(d) ==
    \/ ret'.op = "upload_and_parse" /\ ret'.id = d
    \/ ret'.op = "generate_document" /\ ret'.document_id = d

\* the content at a path, None where no file is
FileAt(files, path) == IF path \in DOMAIN files THEN Some(files[path]) ELSE None

\* C22: The files of a document are its own: the original file of a document
\* is never changed after its upload, and an operation on another document
\* changes neither its original file, nor its working copy, nor its
\* generated output.
C22_FilesExclusivelyOwned ==
    [][\A d \in 1..Len(docs) :
          /\ FileAt(fs', docs[d].path) = FileAt(fs, docs[d].path)
          /\ ~StepOn(d) =>
                /\ FileAt(fs', Get(docs[d].temp_path)) = FileAt(fs, Get(docs[d].temp_path))
                /\ FileAt(fs', GeneratedPath(docs[d].title))
                     = FileAt(fs, GeneratedPath(docs[d].title))]_vars

----------------------------------------------------------------------------
(* Properties of the validator *)

\* C24: Whatever the placeholder type, a value that fails the type's rule
\* check is returned as invalid with confidence 0 and with a correction
\* suggestion, and the LLM stage is not run for it.
C24_RuleFailureShortCircuits ==
    (ret.op = "validate" /\ ~ret.rule.passed) =>
        /\ ~ret.result.is_valid
        /\ ret.result.confidence = 0
        /\ ~ret.result.llm_called
        /\ ~IsNone(ret.result.suggested_correction)

\* the last call was a validate call whose value passed the rule check
RulePassed == ret.op = "validate" /\ ret.rule.passed

\* rule confidences of the calls explored whose value passes the rule check
PassingRuleConfidences ==
    {RuleBasedValidation(c.value, c.placeholder_type).confidence :
        c \in {x \in ValidatorCalls :
                RuleBasedValidation(x.value, x.placeholder_type).passed}}

\* C25 as stated: when the rule check passes, the final confidence is
\* 0.5*rule + 0.5*llm for a rule confidence of at least 0.75 and
\* 0.4*rule + 0.6*llm below it, is_valid is true exactly when the final
\* confidence is greater than 0.5, and each of the two weightings is used
\* for some type and value.
C25_BothWeightingsReachable ==
    /\ RulePassed =>
        /\ ret.result.confidence =
              IF ret.rule.confidence >= 750
              THEN 5 * ret.rule.confidence + 5 * ret.llm_confidence
              ELSE 4 * ret.rule.confidence + 6 * ret.llm_confidence
        /\ ret.result.is_valid <=> ret.result.confidence > 5000
    /\ \E r \in PassingRuleConfidences : r >= 750
    /\ \E r \in PassingRuleConfidences : r < 750

\* C25, amended: when the rule check passes, the rule confidence is at least
\* 0.75, the final confidence is 0.5*rule + 0.5*llm, and is_valid is true
\* exactly when the final confidence is greater than 0.5; the 0.4/0.6
\* weighting is used for no type and value.
C25_BlendUsesEqualWeights ==
    RulePassed =>
        /\ ret.rule.confidence >= 750
        /\ ret.result.llm_called
        /\ ret.result.confidence = 5 * ret.rule.confidence + 5 * ret.llm_confidence
        /\ ret.result.is_valid <=> ret.result.confidence > 5000

\* the value with the lowest rule confidence, a single character as text,
\* accepted with an LLM confidence just above the threshold
C25_Witness ==
    /\ RulePassed
    /\ ret.rule.confidence = 750
    /\ ret.llm_confidence = 300
    /\ ret.result.is_valid

\* C26: Validating an accepted value again, for the same placeholder type,
\* gives the same is_valid as the first validation gave.
C26_RevalidationAgrees ==
    (ret.op = "validate" /\ ~IsNone(ret.first)) =>
        ret.result.is_valid = Get(ret.first).is_valid

----------------------------------------------------------------------------
(* Properties of the extractor *)

\* the last call was a turn in which the reply "yes" went through the
\* pipeline for a placeholder of type text, and the extractor's LLM call
\* failed, so that its result is the fallback's
YesToTextByFallback ==
    /\ ret.op = "process_message"
    /\ ret.ok
    /\ ret.trace.target # 0
    /\ ~IsNone(ret.trace.extraction)
    /\ Get(ret.trace.extraction).reasoning # "llm"
    /\ TypeOf(docs[ret.document_id].placeholders[ret.trace.target]) = "text"
    /\ LET history == docs[ret.document_id].conversation_history
       IN  /\ Len(history) >= 2
           /\ history[Len(history) - 1] = UserMessage("yes")

\* C27: For the reply "yes" to a TEXT placeholder the extractor returns no
\* value and asks for clarification, also when its LLM call fails and the
\* fallback extraction is used; the reply is not stored as the placeholder's
\* value.
C27_YesIsAmbiguous ==
    YesToTextByFallback =>
        /\ IsNone(Get(ret.trace.extraction).extracted_value)
        /\ Get(ret.trace.extraction).needs_clarification
        /\ ~ret.value_accepted
        /\ docs[ret.document_id].placeholders[ret.trace.target].value # Some(<<"yes">>)

----------------------------------------------------------------------------
(* Properties of detection and of the templating steps *)

\* C28: The placeholders of a document are in document order: placeholder i
\* is made from detection i, and the detections are in ascending order of
\* their start position in the text.
C28_PlaceholdersInDocumentOrder ==
    \A d \in 1..Len(docs) :
        LET detections == parseLog[d].detections
        IN  /\ Len(docs[d].placeholders) = Len(detections)
            /\ \A i \in 1..Len(detections) :
                  docs[d].placeholders[i].placeholder = detections[i].text
            /\ \A i, j \in 1..Len(detections) :
                  i < j => detections[i].start_pos < detections[j].start_pos

\* pattern p matches the text at start offset s, and the match passes the
\* structural filter and is scored above 0.5
KeptMatch(p, s, text, scores) ==
    /\ MatchAt(PLACEHOLDER_PATTERNS[p], text, s + 1)
    /\ LET matched == SubSeq(text, s + 1, s + Len(PLACEHOLDER_PATTERNS[p]))
       IN  /\ IsValidPlaceholderStructure(matched)
           /\ ValidatePlaceholder(matched, scores[<<p, s>>]) > 500

\* the detection is the match of pattern p at its start offset
DetectionOf(detection, p, text) ==
    /\ detection.end_pos = detection.start_pos + Len(PLACEHOLDER_PATTERNS[p])
    /\ detection.text = SubSeq(text, detection.start_pos + 1, detection.end_pos)

\* C29: Every detection the detector returns passed the structural filter
\* and has a confidence above 0.5; no two returned detections start at the
\* same offset; and a returned detection is the match of the first pattern,
\* in list order, whose match at that offset was kept.
C29_DetectionsFilteredAndUnique ==
    \A d \in 1..Len(docs) :
        LET detections == parseLog[d].detections
            text == FullText(parseLog[d].source)
            scores == parseLog[d].scores
        IN  /\ \A i \in 1..Len(detections) :
                  /\ detections[i].confidence > 500
                  /\ IsValidPlaceholderStructure(detections[i].text)
                  /\ \E p \in 1..Len(PLACEHOLDER_PATTERNS) :
                        /\ KeptMatch(p, detections[i].start_pos, text, scores)
                        /\ \A q \in 1..(p - 1) :
                              ~KeptMatch(q, detections[i].start_pos, text, scores)
                        /\ DetectionOf(detections[i], p, text)
                        /\ detections[i].confidence =
                              ValidatePlaceholder(detections[i].text,
                                                  scores[<<p, detections[i].start_pos>>])
            /\ \A i, j \in 1..Len(detections) :
                  i # j => detections[i].start_pos # detections[j].start_pos

\* two patterns match at one offset, the earlier one is scored too low, and
\* the detection returned there is the later pattern's
C29_Witness ==
    \E d \in 1..Len(docs) :
        LET detections == parseLog[d].detections
            text == FullText(parseLog[d].source)
            scores == parseLog[d].scores
        IN  \E i \in 1..Len(detections), p, q \in 1..Len(PLACEHOLDER_PATTERNS) :
                /\ p < q
                /\ MatchAt(PLACEHOLDER_PATTERNS[p], text, detections[i].start_pos + 1)
                /\ ~KeptMatch(p, detections[i].start_pos, text, scores)
                /\ KeptMatch(q, detections[i].start_pos, text, scores)

\* the text of every body paragraph, then of every table cell, of a working
\* copy: the order in which the templater visits them
TextsOf(content) ==
    [k \in 1..Len(content.paragraphs) |-> ParaText(content.paragraphs[k])]
        \o [k \in 1..Len(content.tables) |-> ParaText(content.tables[k])]

\* the working copy of document d after its first i placeholders were done
TemplatedUpTo(d, i) ==
    CreateTempDocument(parseLog[d].source, SubSeq(docs[d].placeholders, 1, i), 1)

\* the first of texts in which pat occurs, 0 if there is none
FirstContaining(texts, pat) ==
    IF \E k \in 1..Len(texts) : \E s \in 1..Len(texts[k]) : OccursAt(pat, texts[k], s)
    THEN CHOOSE k \in 1..Len(texts) :
            /\ \E s \in 1..Len(texts[k]) : OccursAt(pat, texts[k], s)
            /\ \A j \in 1..(k - 1) : \A s \in 1..Len(texts[j]) : ~OccursAt(pat, texts[j], s)
    ELSE 0

\* after is before with its first occurrence of pat replaced by marker
FirstOccurrenceReplaced(before, after, pat, marker) ==
    \E s \in 1..Len(before) :
        /\ OccursAt(pat, before, s)
        /\ \A t \in 1..(s - 1) : ~OccursAt(pat, before, t)
        /\ after = SubSeq(before, 1, s - 1) \o marker
                        \o SubSeq(before, s + Len(pat), Len(before))

\* C30: the working copy on disk is the source after one templating step per
\* placeholder, and each step changes the text of the document only in the
\* first paragraph (body paragraphs before table cells) that contains the
\* placeholder's original text, where the first occurrence of that text is
\* replaced by the marker; the text of every other paragraph and cell is as
\* it was, and nothing changes when no paragraph contains the text
C30_StepReplacesFirstOccurrenceOnly ==
    \A d \in 1..Len(docs) :
        /\ FileAt(fs, Get(docs[d].temp_path))
                = Some(TemplatedUpTo(d, Len(docs[d].placeholders)))
        /\ \A i \in 1..Len(docs[d].placeholders) :
            LET before == TextsOf(TemplatedUpTo(d, i - 1))
                after == TextsOf(TemplatedUpTo(d, i))
                pat == docs[d].placeholders[i].placeholder
                k == FirstContaining(before, pat)
            IN  /\ Len(after) = Len(before)
                /\ \A j \in 1..Len(before) : j # k => after[j] = before[j]
                /\ k # 0 => FirstOccurrenceReplaced(before[k], after[k], pat,
                                docs[d].placeholders[i].unique_marker)

\* a step that found its placeholder twice in the paragraph it changed
C30_Witness ==
    \E d \in 1..Len(docs) : \E i \in 1..Len(docs[d].placeholders) :
        LET before == TextsOf(TemplatedUpTo(d, i - 1))
            pat == docs[d].placeholders[i].placeholder
            k == FirstContaining(before, pat)
        IN  /\ k # 0
            /\ CountOcc(pat, before[k]) >= 2

\* the first pattern of the fallback that matches the words, 0 if none does
FirstMatching(words) ==
    IF \E p \in 1..NumPatterns : ~IsNone(PatternCapture(p, words))
    THEN CHOOSE p \in 1..NumPatterns :
            /\ ~IsNone(PatternCapture(p, words))
            /\ \A q \in 1..(p - 1) : IsNone(PatternCapture(q, words))
    ELSE 0

\* C31: When the extractor's LLM call fails, the result is decided in this
\* order: a question-like message needs clarification; a message under 2
\* characters needs clarification; the first extraction pattern that matches
\* gives its captured text as the value; otherwise a message under 200
\* characters is the value itself at confidence 0.6; otherwise clarification
\* is needed.  The value is null exactly when clarification is needed.
C31_FallbackOrder ==
    (ret.op = "extract" /\ ret.fallback) =>
        /\ IsNone(ret.result.extracted_value) <=> ret.result.needs_clarification
        /\ IF IsQuestionWords(ret.message) \/ WordsLen(ret.message) < 2
           THEN ret.result.needs_clarification
           ELSE IF FirstMatching(ret.message) # 0
           THEN /\ ~ret.result.needs_clarification
                /\ ret.result.extracted_value
                        = PatternCapture(FirstMatching(ret.message), ret.message)
           ELSE IF WordsLen(ret.message) < 200
           THEN /\ ~ret.result.needs_clarification
                /\ ret.result.extracted_value = Some(ret.message)
                /\ ret.result.confidence = 600
           ELSE ret.result.needs_clarification

\* the validator ran in the turn, the value passed its rule check and its
\* LLM stage failed
ValidatorStageFailed(trace) ==
    /\ ~IsNone(trace.validation)
    /\ Get(trace.validation).llm_failed

\* C32: When the validator's LLM stage fails on a value that passed the rule
\* check, validate returns is_valid = true and the turn accepts the value:
\* it returns value_accepted = true and writes the extracted value to the
\* placeholder it was asked for.  The same holds in validate for every
\* placeholder type and every value explored that passes its rule.
C32_FailedConfidenceStageAccepts ==
    [][(TurnStep /\ ValidatorStageFailed(ret'.trace)) =>
        /\ Get(ret'.trace.validation).is_valid
        /\ ret'.value_accepted
        /\ docs'[ret'.document_id].placeholders[ret'.trace.target].value
                = Get(ret'.trace.extraction).extracted_value
        /\ \A c \in ValidatorCalls :
                RuleBasedValidation(c.value, c.placeholder_type).passed
                    => Validate(c.value, c.placeholder_type, -1).is_valid]_vars

\* a turn on a placeholder of type date in which the validator's LLM stage
\* failed and the value was accepted
C32_Witness ==
    /\ ret.op = "process_message"
    /\ ret.ok
    /\ ValidatorStageFailed(ret.trace)
    /\ ret.value_accepted
    /\ TypeOf(docs[ret.document_id].placeholders[ret.trace.target]) = "date"

----------------------------------------------------------------------------
(* Properties of the v1 wait *)

\* _wait_for_run_completion has returned or raised
WaitEnded == assistant_run.pc \in {"returned", "raised"}

\* C33 as stated: _wait_for_run_completion ends only when the run has one
\* of the statuses completed, failed, cancelled or expired: it returns only
\* on completed and raises only on one of the other three.
C33_EndsOnlyOnFourStatuses ==
    /\ assistant_run.pc = "returned" => assistant_run.seen = "completed"
    /\ assistant_run.pc = "raised" => assistant_run.seen \in FailedStatuses

\* C33, amended: the call returns only when the status retrieved is
\* completed; it raises when the status retrieved is failed, cancelled or
\* expired, and otherwise only when retrieve raised or, on requires_action,
\* when the tool calls could not be decoded or submitted; a poll that
\* retrieves any other status, or that submits the tool outputs, leaves the
\* call polling; and a run that has reached one of the four statuses ends
\* the call.
C33_WaitEndsOnStatusOrError ==
    /\ [](assistant_run.pc = "returned" => assistant_run.seen = "completed")
    /\ [](assistant_run.pc = "raised" =>
            assistant_run.seen \in FailedStatuses \cup {"none", "requires_action"})
    /\ [][(/\ assistant_run.pc = "polling"
           /\ assistant_run.status \notin FailedStatuses \cup {"completed"})
            => \/ assistant_run'.pc = "polling"
               \/ /\ assistant_run'.pc = "raised"
                  /\ assistant_run'.seen \in {"none", "requires_action"}]_vars
    /\ [][(/\ assistant_run.pc = "polling"
           /\ assistant_run.status = "requires_action"
           /\ assistant_run'.status = "queued")
            => /\ assistant_run'.pc = "polling"
               /\ assistant_run'.outputs = ToolOutputs(assistant_run.tool_calls)]_vars
    /\ ((/\ assistant_run.pc = "polling"
         /\ assistant_run.status \in FailedStatuses \cup {"completed"})
            ~> WaitEnded)

\* the call is still polling after the counted number of polls, the run
\* having ended as incomplete
C33_Witness ==
    /\ assistant_run.pc = "polling"
    /\ assistant_run.polls = MaxPolls
    /\ assistant_run.status = "incomplete"
    /\ assistant_run.seen = "incomplete"

----------------------------------------------------------------------------
(* Further properties of the conversation *)

\* C34: After start_session has returned session id s for document d, the
\* record of d in the collection has langchain_session_id = s, whether or
\* not d has a placeholder without a value.
C34_SessionIdPersisted ==
    (ret.op = "start_session" /\ ret.ok) =>
        docs[ret.document_id].langchain_session_id = Some(ret.session_id)

\* C35: A turn returns value_accepted = true only if in that turn the
\* extractor returned a value that is not null with needs_clarification =
\* false and the validator returned is_valid = true; the validator is called
\* only on a value that is not null; and a turn whose pipeline raised returns
\* value_accepted = false with confidence 0 and writes no placeholder value.
C35_AcceptedOnlyWhenExtractedAndValid ==
    [][TurnStep =>
        /\ ret'.value_accepted =>
            /\ ~IsNone(ret'.trace.extraction)
            /\ ~IsNone(Get(ret'.trace.extraction).extracted_value)
            /\ ~Get(ret'.trace.extraction).needs_clarification
            /\ ret'.trace.validator_called
            /\ ~IsNone(ret'.trace.validation)
            /\ Get(ret'.trace.validation).is_valid
        /\ ret'.trace.validator_called =>
            /\ ~IsNone(ret'.trace.extraction)
            /\ ~IsNone(Get(ret'.trace.extraction).extracted_value)
        /\ ret'.response.kind = "error" =>
            /\ ~ret'.value_accepted
            /\ ret'.confidence = Some(0)
            /\ docs'[ret'.document_id].placeholders
                    = docs[ret'.document_id].placeholders]_vars

\* a turn that accepted a value the validator found valid
C35_Witness ==
    /\ ret.op = "process_message"
    /\ ret.ok
    /\ ret.value_accepted
    /\ ~IsNone(ret.trace.validation)
    /\ Get(ret.trace.validation).is_valid

\* C36: The placeholders of a document that have a value form a prefix of
\* its placeholder list: none has a value while an earlier one has none.
C36_FilledPlaceholdersFormPrefix ==
    \A d \in 1..Len(docs) :
        \A i, j \in 1..Len(docs[d].placeholders) :
            (i < j /\ ~IsNone(docs[d].placeholders[j].value))
                => ~IsNone(docs[d].placeholders[i].value)

\* a document of two placeholders after one accepted turn: the first has a
\* value and the second has none
C36_Witness ==
    \E d \in 1..Len(docs) :
        /\ Len(docs[d].placeholders) = 2
        /\ ~IsNone(docs[d].placeholders[1].value)
        /\ IsNone(docs[d].placeholders[2].value)

\* C37: A placeholder value, once set, is never changed or cleared by a
\* later step: every placeholder that has a value keeps that value, so the
\* number of filled placeholders of a document never decreases.
C37_ValuesAreKept ==
    [][\A d \in 1..Len(docs) :
        /\ \A i \in 1..Len(docs[d].placeholders) :
              ~IsNone(docs[d].placeholders[i].value)
                  => docs'[d].placeholders[i].value = docs[d].placeholders[i].value
        /\ FilledCount(docs'[d].placeholders) >= FilledCount(docs[d].placeholders)]_vars

\* C38: The conversation history only grows, and every process_message call
\* for a valid session appends the user's message and then exactly one
\* assistant message, also when every placeholder already has a value; no
\* step changes or removes an entry.
C38_HistoryAppendOnlyAndComplete ==
    [][\A d \in 1..Len(docs) :
        LET old == docs[d].conversation_history
            new == docs'[d].conversation_history
        IN  /\ IsPrefixOf(old, new)
            /\ (TurnStep /\ ret'.document_id = d) =>
                /\ Len(new) = Len(old) + 2
                /\ new[Len(old) + 1].role = "user"
                /\ new[Len(old) + 2].role = "assistant"]_vars

----------------------------------------------------------------------------
(* Further properties of detection and generation *)

\* C39: No two detections returned for a document overlap: of any two, one
\* ends at or before the start of the other.
C39_DetectionsDoNotOverlap ==
    \A d \in 1..Len(parseLog) :
        \A i, j \in 1..Len(parseLog[d].detections) :
            i # j =>
                \/ parseLog[d].detections[i].end_pos <= parseLog[d].detections[j].start_pos
                \/ parseLog[d].detections[j].end_pos <= parseLog[d].detections[i].start_pos

\* the number of times pat occurs in the paragraphs and cells of content
OccurrencesIn(content, pat) ==
    LET texts == TextsOf(content)
        RECURSIVE Sum(_)
        Sum(k) == IF k = 0 THEN 0 ELSE CountOcc(pat, texts[k]) + Sum(k - 1)
    IN  Sum(Len(texts))

\* C40: After a successful generate_document on a document whose markers
\* are distinct, the value of every placeholder occurs in the output, and
\* the output holds fewer occurrences of the placeholder's original text
\* than the source does.
C40_OutputHoldsEveryValue ==
    (ret.op = "generate_document" /\ ret.ok /\ MarkersDistinct(ret.document_id)) =>
        \A i \in 1..Len(docs[ret.document_id].placeholders) :
            LET placeholder == docs[ret.document_id].placeholders[i]
                output == fs[Get(ret.path)]
            IN  /\ OccurrencesIn(output, Get(placeholder.value)) > 0
                /\ OccurrencesIn(output, placeholder.placeholder)
                        < OccurrencesIn(parseLog[ret.document_id].source,
                                        placeholder.placeholder)

====
